---- MODULE Spec2Model ----
(***************************************************************************)
(* fs-object-storage: an fs-compatible facade (ObjectStorage) over an      *)
(* S3/MinIO object store, with its PathConverter and ErrorHandler.         *)
(*                                                                         *)
(* Strings are modelled as sequences of one-character strings, so that     *)
(* normalisation, prefix tests and slicing are computed as the code        *)
(* computes them.  Error messages are sequences of text fragments; the     *)
(* substring tests of the code are membership tests on the fragments.      *)
(***************************************************************************)
EXTENDS Integers, Sequences, FiniteSets, TLC

VARIABLES
    prefix,       \* PathConverter.prefix: the configured key prefix
    initialized,  \* ObjectStorage._initialized
    bucketMade,   \* backend: the bucket exists
    store,        \* backend: object key -> object bytes
    tasks,        \* the pending or last public operation of every caller
    opsLeft,      \* public operations the callers may still start
    faultsLeft,   \* backend failures the environment may still inject
    lastWrite,    \* history: key -> payload of the last writeFile, until a
                  \* write, unlink or copy touches the key
    lastWriteR,   \* the same, also forgotten when rmdir removes the key
    fresh,        \* history: the recursive mkdir that completed from a clean
                  \* store, until the store changes again
    eh,           \* ErrorHandler exercise: input, arguments and results
    conv,         \* PathConverter exercise: the path given and the results
    sc            \* StreamConverter exercise: a stream, its events, the promise

vars == <<prefix, initialized, bucketMade, store, tasks, opsLeft, faultsLeft,
          lastWrite, lastWriteR, fresh, eh, conv, sc>>

clientVars == <<prefix, initialized, bucketMade, store, tasks, opsLeft, faultsLeft,
                lastWrite, lastWriteR, fresh>>

\* options.bucket of the client under study
Bucket == <<"b">>

\* PathConverter.separator (options.separator is left at its default)
separator == <<"/">>

(***************************************************************************)
(* String helpers (JavaScript String.prototype methods on char sequences)  *)
(***************************************************************************)
startsWith(s, pre) ==
    /\ Len(pre) <= Len(s)
    /\ SubSeq(s, 1, Len(pre)) = pre

endsWith(s, suf) ==
    /\ Len(suf) <= Len(s)
    /\ SubSeq(s, Len(s) - Len(suf) + 1, Len(s)) = suf

\* s.substring(n): drop the first n characters
substring(s, n) == SubSeq(s, n + 1, Len(s))

\* s.slice(0, -1)
dropLast(s) == SubSeq(s, 1, Len(s) - 1)

\* s.replace(/^\/+/, '')
RECURSIVE stripLeadingSlashes(_)
stripLeadingSlashes(s) ==
    IF s # <<>> /\ Head(s) = "/" THEN stripLeadingSlashes(Tail(s)) ELSE s

\* s.replace(/\/+/g, '/')
RECURSIVE collapseSlashes(_)
collapseSlashes(s) ==
    IF Len(s) < 2 THEN s
    ELSE IF s[1] = "/" /\ s[2] = "/" THEN collapseSlashes(Tail(s))
    ELSE <<s[1]>> \o collapseSlashes(Tail(s))

\* s.split('/')
RECURSIVE splitAcc(_, _, _)
splitAcc(s, cur, acc) ==
    IF s = <<>> THEN Append(acc, cur)
    ELSE IF Head(s) = "/" THEN splitAcc(Tail(s), <<>>, Append(acc, cur))
    ELSE splitAcc(Tail(s), Append(cur, Head(s)), acc)

split(s) == splitAcc(s, <<>>, <<>>)

\* parts.join('/')
RECURSIVE join(_)
join(parts) ==
    IF parts = <<>> THEN <<>>
    ELSE IF Len(parts) = 1 THEN parts[1]
    ELSE parts[1] \o <<"/">> \o join(Tail(parts))

(***************************************************************************)
(* path.posix of Node.js, as used by PathConverter                         *)
(***************************************************************************)
\* normalizeString(path, allowAboveRoot): resolve "." and ".." segments
RECURSIVE normalizeSegs(_, _, _)
normalizeSegs(segs, res, allowAboveRoot) ==
    IF segs = <<>> THEN res
    ELSE LET seg == Head(segs)
             rest == Tail(segs)
         IN  IF seg = <<>> \/ seg = <<".">> THEN normalizeSegs(rest, res, allowAboveRoot)
             ELSE IF seg = <<".", ".">> THEN
                 IF res # <<>> /\ res[Len(res)] # <<".", ".">>
                 THEN normalizeSegs(rest, dropLast(res), allowAboveRoot)
                 ELSE IF allowAboveRoot
                      THEN normalizeSegs(rest, Append(res, seg), allowAboveRoot)
                      ELSE normalizeSegs(rest, res, allowAboveRoot)
             ELSE normalizeSegs(rest, Append(res, seg), allowAboveRoot)

\* path.posix.normalize, after normalizeString returned path
normalized(path, isAbsolute, trailingSeparator) ==
    IF path = <<>>
    THEN IF isAbsolute THEN <<"/">>
         ELSE IF trailingSeparator THEN <<".", "/">> ELSE <<".">>
    ELSE (IF isAbsolute THEN <<"/">> ELSE <<>>) \o path
         \o (IF trailingSeparator THEN <<"/">> ELSE <<>>)

\* path.posix.normalize
posixNormalize(p) ==
    IF p = <<>> THEN <<".">>
    ELSE normalized(join(normalizeSegs(split(p), <<>>, Head(p) # "/")),
                    Head(p) = "/", p[Len(p)] = "/")

\* path.posix.dirname: the scan runs from the last character down to the
\* second one, skips trailing separators and stops at the separator that
\* precedes the last segment
RECURSIVE dirnameEnd(_, _, _)
dirnameEnd(p, i, matchedSlash) ==
    IF i < 2 THEN 0
    ELSE IF p[i] = "/"
         THEN IF ~matchedSlash THEN i ELSE dirnameEnd(p, i - 1, matchedSlash)
         ELSE dirnameEnd(p, i - 1, FALSE)

\* path.posix.dirname, after the scan stopped at index e (0: no separator found)
dirnameUpTo(p, hasRoot, e) ==
    IF e = 0 THEN (IF hasRoot THEN <<"/">> ELSE <<".">>)
    ELSE IF hasRoot /\ e = 2 THEN <<"/", "/">>
    ELSE SubSeq(p, 1, e - 1)

posixDirname(p) ==
    IF p = <<>> THEN <<".">>
    ELSE dirnameUpTo(p, Head(p) = "/", dirnameEnd(p, Len(p), TRUE))

(***************************************************************************)
(* PathConverter                                                           *)
(***************************************************************************)
\* variant: the bucket name is removed without looking for the separator
stripBucket_loose(normalizedPath) ==
    IF startsWith(normalizedPath, Bucket)
    THEN stripLeadingSlashes(substring(normalizedPath, Len(Bucket)))
    ELSE normalizedPath

\* pathToMinIO: a leading bucket name is removed from the normalized path
stripBucket(normalizedPath) ==
    IF startsWith(normalizedPath, Bucket \o <<"/">>)
    THEN substring(normalizedPath, Len(Bucket) + 1)
    ELSE IF normalizedPath = Bucket THEN <<>>
    ELSE normalizedPath

\* pathToMinIO: the configured prefix is put in front
addPrefix(normalizedPath) ==
    IF prefix # <<>> THEN prefix \o separator \o normalizedPath ELSE normalizedPath

pathToMinIO(filePath) ==
    [bucket |-> Bucket,
     key |-> collapseSlashes(addPrefix(stripBucket(
                 stripLeadingSlashes(posixNormalize(filePath)))))]

\* normalizePath: a leading separator is added unless one is there
withLeadingSlash(norm) ==
    IF ~startsWith(norm, <<"/">>) THEN <<"/">> \o norm ELSE norm

\* normalizePath: a trailing separator is removed, except from the root
withoutTrailingSlash(norm) ==
    IF Len(norm) > 1 /\ endsWith(norm, <<"/">>) THEN dropLast(norm) ELSE norm

\* PathConverter.normalizePath (static)
normalizePath(filePath) ==
    IF filePath = <<>> THEN <<"/">>
    ELSE withoutTrailingSlash(withLeadingSlash(collapseSlashes(posixNormalize(filePath))))

\* splitPath: parts.shift() is the bucket, the rest joined is the key
splitParts(parts) == [bucket |-> Head(parts), key |-> join(Tail(parts))]

\* splitPath, after normalizePath
splitNormalized(norm) ==
    IF norm = <<"/">> THEN [bucket |-> <<>>, key |-> <<>>]
    ELSE splitParts(split(substring(norm, 1)))

\* PathConverter.splitPath (static)
splitPath(filePath) == splitNormalized(normalizePath(filePath))

\* variant: the branch for a bucket alone is tested first
joinPath_bucketFirst(bucket, key) ==
    normalizePath(IF bucket # <<>> THEN <<"/">> \o bucket
                  ELSE IF key # <<>> THEN <<"/">> \o stripLeadingSlashes(key)
                  ELSE <<"/">>)

\* PathConverter.joinPath (static)
joinPath(bucket, key) ==
    normalizePath(IF bucket # <<>> /\ key # <<>>
                  THEN <<"/">> \o bucket \o <<"/">> \o stripLeadingSlashes(key)
                  ELSE IF bucket # <<>> THEN <<"/">> \o bucket
                  ELSE IF key # <<>> THEN <<"/">> \o stripLeadingSlashes(key)
                  ELSE <<"/">>)

\* getParentPath: "." stands for the root
rootForDot(parent) == IF parent = <<".">> THEN <<"/">> ELSE parent

getParentPath(filePath) == rootForDot(posixDirname(posixNormalize(filePath)))

\* toDirectoryPath: a separator is appended unless one ends the path
withSeparator(normalizedPath) ==
    IF endsWith(normalizedPath, separator) THEN normalizedPath
    ELSE normalizedPath \o separator

\* variant: the path is normalized and nothing is appended
toDirectoryPath_asIs(filePath) == posixNormalize(filePath)

toDirectoryPath(filePath) == withSeparator(posixNormalize(filePath))

\* variant: the separator is appended to every key
listPrefix_always(key) == key \o separator

\* getListPrefix: a non-empty key gets a trailing separator
listPrefix(key) ==
    IF key # <<>> /\ ~endsWith(key, separator) THEN key \o separator ELSE key

\* variant: the prefix is the key, without a trailing separator
getListPrefix_bare(dirPath) ==
    [bucket |-> Bucket, prefix |-> pathToMinIO(dirPath).key]

getListPrefix(dirPath) ==
    [bucket |-> Bucket, prefix |-> listPrefix(pathToMinIO(dirPath).key)]

createDirectoryMarker(dirPath) == pathToMinIO(toDirectoryPath(dirPath))

\* the characters rejected by the invalidChars pattern that the model uses
InvalidChars == {"<", ">", ":", "\"", "|", "?", "*"}

\* S3 key length limit tested by validatePath
MaxKeyBytes == 1024

\* TRUE when validatePath returns, FALSE when it throws
validatePathOk(filePath) ==
    /\ filePath # <<>>
    /\ \A i \in 1..Len(filePath) : filePath[i] \notin InvalidChars
    /\ Len(pathToMinIO(filePath).key) <= MaxKeyBytes

(***************************************************************************)
(* ErrorHandler                                                            *)
(*                                                                         *)
(* An error is a record; an absent code or syscall is "", an absent errno  *)
(* is 0 and an absent path is <<>> (all of them falsy in JavaScript), and  *)
(* originalError holds zero or one error.                                  *)
(***************************************************************************)
\* variant: the fallback of an earlier release, EUNKNOWN/-1
errorMapping_legacy ==
    [c \in {"NoSuchKey", "NoSuchBucket", "BucketNotFound", "AccessDenied",
            "InvalidBucketName", "BucketAlreadyExists", "KeyTooLong",
            "ENOTFOUND", "ECONNREFUSED", "ETIMEDOUT", "Unknown"} |->
        CASE c \in {"NoSuchKey", "NoSuchBucket", "BucketNotFound"} ->
                 [code |-> "ENOENT", errno |-> -2, message |-> <<"no such file or directory">>]
          [] c = "AccessDenied" ->
                 [code |-> "EACCES", errno |-> -13, message |-> <<"permission denied">>]
          [] c = "InvalidBucketName" ->
                 [code |-> "EINVAL", errno |-> -22, message |-> <<"invalid argument">>]
          [] c = "BucketAlreadyExists" ->
                 [code |-> "EEXIST", errno |-> -17, message |-> <<"file already exists">>]
          [] c = "KeyTooLong" ->
                 [code |-> "ENAMETOOLONG", errno |-> -36, message |-> <<"file name too long">>]
          [] c = "ENOTFOUND" ->
                 [code |-> "ENOTFOUND", errno |-> -3008, message |-> <<"getaddrinfo ", "ENOTFOUND">>]
          [] c = "ECONNREFUSED" ->
                 [code |-> "ECONNREFUSED", errno |-> -61, message |-> <<"connect ", "ECONNREFUSED">>]
          [] c = "ETIMEDOUT" ->
                 [code |-> "ETIMEDOUT", errno |-> -60, message |-> <<"operation timed out">>]
          [] OTHER ->
                 [code |-> "EUNKNOWN", errno |-> -1, message |-> <<"unknown error">>]]

errorMapping ==
    [c \in {"NoSuchKey", "NoSuchBucket", "BucketNotFound", "AccessDenied",
            "InvalidBucketName", "BucketAlreadyExists", "KeyTooLong",
            "ENOTFOUND", "ECONNREFUSED", "ETIMEDOUT", "Unknown"} |->
        CASE c \in {"NoSuchKey", "NoSuchBucket", "BucketNotFound"} ->
                 [code |-> "ENOENT", errno |-> -2, message |-> <<"no such file or directory">>]
          [] c = "AccessDenied" ->
                 [code |-> "EACCES", errno |-> -13, message |-> <<"permission denied">>]
          [] c = "InvalidBucketName" ->
                 [code |-> "EINVAL", errno |-> -22, message |-> <<"invalid argument">>]
          [] c = "BucketAlreadyExists" ->
                 [code |-> "EEXIST", errno |-> -17, message |-> <<"file already exists">>]
          [] c = "KeyTooLong" ->
                 [code |-> "ENAMETOOLONG", errno |-> -36, message |-> <<"file name too long">>]
          [] c = "ENOTFOUND" ->
                 [code |-> "ENOTFOUND", errno |-> -3008, message |-> <<"getaddrinfo ", "ENOTFOUND">>]
          [] c = "ECONNREFUSED" ->
                 [code |-> "ECONNREFUSED", errno |-> -61, message |-> <<"connect ", "ECONNREFUSED">>]
          [] c = "ETIMEDOUT" ->
                 [code |-> "ETIMEDOUT", errno |-> -60, message |-> <<"operation timed out">>]
          [] OTHER ->
                 [code |-> "EIO", errno |-> -5, message |-> <<"input/output error">>]]

\* message.includes(pat)
includes(message, pat) == \E i \in 1..Len(message) : message[i] = pat

\* variant: the access-denied patterns tried before the not-found patterns
classifyMessage_deniedFirst(message) ==
    IF includes(message, "access denied") \/ includes(message, "AccessDenied")
    THEN errorMapping["AccessDenied"]
    ELSE IF includes(message, "key does not exist") \/ includes(message, "NoSuchKey")
            \/ includes(message, "Not Found")
    THEN errorMapping["NoSuchKey"]
    ELSE IF includes(message, "bucket does not exist") \/ includes(message, "NoSuchBucket")
    THEN errorMapping["NoSuchBucket"]
    ELSE IF includes(message, "ENOTFOUND") THEN errorMapping["ENOTFOUND"]
    ELSE IF includes(message, "ECONNREFUSED") THEN errorMapping["ECONNREFUSED"]
    ELSE IF includes(message, "timeout") \/ includes(message, "ETIMEDOUT")
    THEN errorMapping["ETIMEDOUT"]
    ELSE errorMapping["Unknown"]

\* the message pattern chain of convertError, first match winning
classifyMessage(message) ==
    IF includes(message, "key does not exist") \/ includes(message, "NoSuchKey")
       \/ includes(message, "Not Found")
    THEN errorMapping["NoSuchKey"]
    ELSE IF includes(message, "bucket does not exist") \/ includes(message, "NoSuchBucket")
    THEN errorMapping["NoSuchBucket"]
    ELSE IF includes(message, "access denied") \/ includes(message, "AccessDenied")
    THEN errorMapping["AccessDenied"]
    ELSE IF includes(message, "ENOTFOUND") THEN errorMapping["ENOTFOUND"]
    ELSE IF includes(message, "ECONNREFUSED") THEN errorMapping["ECONNREFUSED"]
    ELSE IF includes(message, "timeout") \/ includes(message, "ETIMEDOUT")
    THEN errorMapping["ETIMEDOUT"]
    ELSE errorMapping["Unknown"]

\* "<CODE>: <description>, <syscall> '<path>'", the tail omitted without a path
fsMessage(code, description, syscall, path) ==
    IF path # <<>>
    THEN <<code, ": ">> \o description \o <<", ", syscall, " '">> \o path \o <<"'">>
    ELSE <<code, ": ">> \o description

\* convertError: the table entry chosen for an error
errorInfoOf(minioError) ==
    IF minioError.code # "" /\ minioError.code \in DOMAIN errorMapping
    THEN errorMapping[minioError.code]
    ELSE IF minioError.message # <<>>
    THEN classifyMessage(minioError.message)
    ELSE errorMapping["Unknown"]

\* the fs-style error built from a table entry; cause holds zero or one error
fsError(code, errorInfo, syscall, path, cause) ==
    [code |-> code,
     errno |-> errorInfo.errno,
     syscall |-> syscall,
     path |-> path,
     message |-> fsMessage(code, errorInfo.message, syscall, path),
     originalError |-> cause]

\* convertError: the table entry becomes an error that keeps the original
wrapError(errorInfo, minioError, path, syscall) ==
    fsError(errorInfo.code, errorInfo, syscall, path, <<minioError>>)

\* variant: no pass-through, every error is wrapped
convertError_rewrap(minioError, path, operation) ==
    wrapError(errorInfoOf(minioError), minioError, path,
              IF operation # "" THEN operation ELSE "open")

convertError(minioError, path, operation) ==
    IF minioError.code # "" /\ minioError.errno # 0 THEN minioError
    ELSE wrapError(errorInfoOf(minioError), minioError, path,
                   IF operation # "" THEN operation ELSE "open")

\* createError: the table entry for an fs code or an identifier
errorInfoFor(code) ==
    IF code \in DOMAIN errorMapping THEN errorMapping[code]
    ELSE CASE code = "ENOENT" -> errorMapping["NoSuchKey"]
           [] code = "EACCES" -> errorMapping["AccessDenied"]
           [] code = "EEXIST" -> errorMapping["BucketAlreadyExists"]
           [] code = "EINVAL" -> errorMapping["InvalidBucketName"]
           [] code = "ENAMETOOLONG" -> errorMapping["KeyTooLong"]
           [] OTHER -> errorMapping["Unknown"]

\* variant: the errno is left unset
createError_noErrno(code, path, operation) ==
    fsError(code, [errno |-> 0, message |-> <<"input/output error">>], operation, path, <<>>)

createError(code, path, operation) ==
    fsError(code, errorInfoFor(code), operation, path, <<>>)

\* variant: tests the identifier of the object store
isNotFoundError_s3(error) == error.code = "NoSuchKey"

isNotFoundError(error) == error.code = "ENOENT"

isExistsError(error) == error.code = "EEXIST"

\* new Error(message) as thrown by the libraries and by validatePath
plainError(message) ==
    [code |-> "", errno |-> 0, syscall |-> "", path |-> <<>>,
     message |-> message, originalError |-> <<>>]

(***************************************************************************)
(* Buffer.from(string, 'utf8') and buffer.toString('utf8') of Node.js.     *)
(* A string is a sequence of UTF-16 code units, a buffer one of bytes.     *)
(***************************************************************************)
isHighSurrogate(u) == u >= 55296 /\ u <= 56319

isLowSurrogate(u) == u >= 56320 /\ u <= 57343

isContinuation(b) == b >= 128 /\ b <= 191

\* U+FFFD, which replaces what cannot be encoded or decoded
Replacement == 65533

encodeCodePoint(c) ==
    IF c < 128 THEN <<c>>
    ELSE IF c < 2048 THEN <<192 + (c \div 64), 128 + (c % 64)>>
    ELSE IF c < 65536
    THEN <<224 + (c \div 4096), 128 + ((c \div 64) % 64), 128 + (c % 64)>>
    ELSE <<240 + (c \div 262144), 128 + ((c \div 4096) % 64),
           128 + ((c \div 64) % 64), 128 + (c % 64)>>

RECURSIVE utf8Encode(_)
utf8Encode(units) ==
    IF units = <<>> THEN <<>>
    ELSE LET u == Head(units)
         IN  IF isHighSurrogate(u) /\ Len(units) >= 2 /\ isLowSurrogate(units[2])
             THEN encodeCodePoint(65536 + (u - 55296) * 1024 + (units[2] - 56320))
                  \o utf8Encode(Tail(Tail(units)))
             ELSE IF isHighSurrogate(u) \/ isLowSurrogate(u)
             THEN encodeCodePoint(Replacement) \o utf8Encode(Tail(units))
             ELSE encodeCodePoint(u) \o utf8Encode(Tail(units))

decodeUnits(c) ==
    IF c < 65536 THEN <<c>>
    ELSE <<55296 + ((c - 65536) \div 1024), 56320 + ((c - 65536) % 1024)>>

\* a byte that starts no well-formed sequence decodes to U+FFFD
RECURSIVE utf8Decode(_)
utf8Decode(bytes) ==
    IF bytes = <<>> THEN <<>>
    ELSE LET b == Head(bytes)
             n == Len(bytes)
             c2 == (b - 192) * 64 + (bytes[2] - 128)
             c3 == (b - 224) * 4096 + (bytes[2] - 128) * 64 + (bytes[3] - 128)
             c4 == (b - 240) * 262144 + (bytes[2] - 128) * 4096
                   + (bytes[3] - 128) * 64 + (bytes[4] - 128)
         IN  IF b < 128 THEN <<b>> \o utf8Decode(Tail(bytes))
             ELSE IF b >= 194 /\ b <= 223 /\ n >= 2 /\ isContinuation(bytes[2])
             THEN <<c2>> \o utf8Decode(SubSeq(bytes, 3, n))
             ELSE IF b >= 224 /\ b <= 239 /\ n >= 3 /\ isContinuation(bytes[2])
                     /\ isContinuation(bytes[3]) /\ c3 >= 2048
                     /\ ~(c3 >= 55296 /\ c3 <= 57343)
             THEN <<c3>> \o utf8Decode(SubSeq(bytes, 4, n))
             ELSE IF b >= 240 /\ b <= 244 /\ n >= 4 /\ isContinuation(bytes[2])
                     /\ isContinuation(bytes[3]) /\ isContinuation(bytes[4])
                     /\ c4 >= 65536 /\ c4 <= 1114111
             THEN decodeUnits(c4) \o utf8Decode(SubSeq(bytes, 5, n))
             ELSE <<Replacement>> \o utf8Decode(Tail(bytes))

(***************************************************************************)
(* StreamConverter                                                         *)
(***************************************************************************)
\* variant: a string is encoded one byte per code unit
toReadableStream_latin1(data) ==
    IF data.kind = "string" THEN [i \in 1..Len(data.v) |-> data.v[i] % 256] ELSE data.v

\* the chunk that toReadableStream(data) emits; data is a string or a buffer
toReadableStream(data) ==
    IF data.kind = "string" THEN utf8Encode(data.v) ELSE data.v

getDataSize(data) ==
    IF data.kind = "string" THEN Len(utf8Encode(data.v)) ELSE Len(data.v)

(***************************************************************************)
(* Bounds of the exploration                                               *)
(***************************************************************************)
\* public operations started in one behaviour
MaxOps == 2

\* backend calls that fail for a reason other than a missing object
MaxFaults == 1

\* chunks a caller writes to one write stream
MaxChunks == 1

(***************************************************************************)
(* The backend collaborator (the MinIO client and the object store)        *)
(***************************************************************************)
rawError(code, errno, syscall, message) ==
    [code |-> code, errno |-> errno, syscall |-> syscall, path |-> <<>>,
     message |-> message, originalError |-> <<>>]

\* statObject on a missing object: a HEAD reply has no body, only the status
NotFound == rawError("NotFound", 0, "", <<"Not Found">>)

\* getObject and copyObject on a missing object
NoSuchKey == rawError("NoSuchKey", 0, "", <<"The specified ", "key does not exist", ".">>)

\* the client library refuses an empty object name before any request
InvalidObjectName == plainError(<<"Invalid object name: ">>)

\* makeBucket on a bucket that exists
BucketTaken ==
    {rawError("BucketAlreadyOwnedByYou", 0, "",
              <<"Your previous request to create the named bucket succeeded and you already own it.">>),
     rawError("BucketAlreadyExists", 0, "",
              <<"The requested bucket name is not available.">>)}

\* failures any backend call can meet: a policy denial, a bucket that is gone,
\* a server error and a broken connection (a Node.js system error, which
\* carries code, errno and syscall)
Faults ==
    {rawError("AccessDenied", 0, "", <<"Access Denied.">>),
     rawError("NoSuchBucket", 0, "", <<"The specified ", "bucket does not exist">>),
     rawError("InternalError", 0, "", <<"We encountered an internal error, please try again.">>),
     rawError("ECONNRESET", -104, "read", <<"read ", "ECONNRESET">>)}

Put(f, k, v) == [x \in (DOMAIN f) \cup {k} |-> IF x = k THEN v ELSE f[x]]

Del(f, k) == [x \in (DOMAIN f) \ {k} |-> f[x]]

Empty == [x \in {} |-> <<>>]

(***************************************************************************)
(* Callers: one record per caller, holding the operation it awaits         *)
(***************************************************************************)
NumTasks == 2

Tasks == 1..NumTasks

NoData == [kind |-> "buffer", v |-> <<>>]

NoValue == [kind |-> "void", bytes |-> <<>>, names |-> <<>>, bool |-> FALSE]

idleTask ==
    [op |-> "", path |-> <<>>, dest |-> <<>>, data |-> NoData, enc |-> "",
     recursive |-> FALSE, pc |-> "idle", stack |-> <<>>,
     status |-> "", value |-> NoValue, error |-> <<>>,
     raw |-> <<>>,          \* history: the backend failure behind the outcome
     probe |-> "",          \* history: what the last statObject answered
     late |-> FALSE,        \* history: the flag was set when the operation began
     before |-> Empty,      \* history: the store when the operation began
     bucketCalls |-> 0,     \* history: bucketExists and makeBucket calls issued
     calls |-> <<>>,        \* history: the backend calls issued, with arguments
     chunks |-> <<>>, ended |-> FALSE, destroyed |-> <<>>]

resolve(tk, value) == [tk EXCEPT !.pc = "done", !.status = "ok", !.value = value]

reject(tk, err) == [tk EXCEPT !.pc = "done", !.status = "err", !.error = <<err>>]

bytesValue(b) == [NoValue EXCEPT !.kind = "bytes", !.bytes = b]

textValue(u) == [NoValue EXCEPT !.kind = "text", !.bytes = u]

boolValue(b) == [NoValue EXCEPT !.kind = "bool", !.bool = b]

namesValue(n) == [NoValue EXCEPT !.kind = "names", !.names = n]

statValue(size) == [NoValue EXCEPT !.kind = "stat", !.bytes = <<size>>]

\* the Error that validatePath throws for a path it rejects
validatePathError(filePath) ==
    IF filePath = <<>> THEN plainError(<<"Path must be a non-empty string">>)
    ELSE IF \E i \in 1..Len(filePath) : filePath[i] \in InvalidChars
    THEN plainError(<<"Path contains invalid characters">>)
    ELSE plainError(<<"Path too long (exceeds 1024 bytes when converted to key)">>)

(***************************************************************************)
(* ObjectStorage: the code of every public operation between the return of *)
(* initialize() and the first backend call it awaits                       *)
(***************************************************************************)
begin_readFile(tk) ==
    IF ~validatePathOk(tk.path)
    THEN reject(tk, convertError(validatePathError(tk.path), tk.path, "open"))
    ELSE [tk EXCEPT !.pc = "getObject"]

\* variant: the path is not validated
begin_writeFile_unchecked(tk) == [tk EXCEPT !.pc = "putObject"]

begin_writeFile(tk) ==
    IF ~validatePathOk(tk.path)
    THEN reject(tk, convertError(validatePathError(tk.path), tk.path, "open"))
    ELSE [tk EXCEPT !.pc = "putObject"]

\* exists(): the catch around stat()
stat_throw(tk, error) ==
    IF tk.op = "exists" /\ isNotFoundError(error)
    THEN resolve(tk, boolValue(FALSE))
    ELSE reject(tk, error)

stat_return(tk, size) ==
    IF tk.op = "exists" THEN resolve(tk, boolValue(TRUE))
    ELSE resolve(tk, statValue(size))

begin_stat(tk) ==
    IF ~validatePathOk(tk.path)
    THEN stat_throw(tk, convertError(validatePathError(tk.path), tk.path, "stat"))
    ELSE [tk EXCEPT !.pc = "statObject"]

\* variant: a missing file is not an error
unlink_throw_force(tk, error) ==
    IF ~isNotFoundError(error)
    THEN reject(tk, convertError(error, tk.path, "unlink"))
    ELSE resolve(tk, NoValue)

\* unlink(): the outer catch
unlink_throw(tk, error) ==
    IF ~isNotFoundError(error)
    THEN reject(tk, convertError(error, tk.path, "unlink"))
    ELSE reject(tk, error)

begin_unlink(tk) ==
    IF ~validatePathOk(tk.path)
    THEN unlink_throw(tk, validatePathError(tk.path))
    ELSE [tk EXCEPT !.pc = "statObject"]

begin_readdir(tk) ==
    IF ~validatePathOk(tk.path)
    THEN reject(tk, convertError(validatePathError(tk.path), tk.path, "scandir"))
    ELSE [tk EXCEPT !.pc = "listObjectsV2"]

\* rmdir(): the catch
rmdir_throw(tk, error) ==
    IF ~isNotFoundError(error) /\ error.code # "ENOTEMPTY"
    THEN reject(tk, convertError(error, tk.path, "rmdir"))
    ELSE reject(tk, error)

\* rmdir() validates, then calls readdir(), which initializes and validates again
begin_rmdir(tk) ==
    IF ~validatePathOk(tk.path)
    THEN rmdir_throw(tk, validatePathError(tk.path))
    ELSE [tk EXCEPT !.pc = "listObjectsV2"]

\* the directories a mkdir call visits, outermost first: with recursive the
\* call first calls itself on the parent, unless that is the root or the path
RECURSIVE mkdirChain(_, _)
\* variant: the call works on its own directory before it turns to the parent
mkdirParent_after(dirPath, parent, recursive) ==
    IF recursive /\ validatePathOk(dirPath) /\ parent # <<"/">> /\ parent # dirPath
    THEN <<dirPath>> \o mkdirChain(parent, TRUE)
    ELSE <<dirPath>>

mkdirParent(dirPath, parent, recursive) ==
    IF recursive /\ validatePathOk(dirPath) /\ parent # <<"/">> /\ parent # dirPath
    THEN Append(mkdirChain(parent, TRUE), dirPath)
    ELSE <<dirPath>>

mkdirChain(dirPath, recursive) == mkdirParent(dirPath, getParentPath(dirPath), recursive)

\* mkdir(): the outer catch of the call on dirPath
mkdir_throw(tk, dirPath, error) ==
    IF ~isExistsError(error)
    THEN reject(tk, convertError(error, dirPath, "mkdir"))
    ELSE reject(tk, error)

\* every call of the chain validates its path before it recurses, so the chain
\* ends (at its head) in the first path that validatePath rejects, if any
mkdir_validate(tk, chain) ==
    IF ~validatePathOk(Head(chain))
    THEN mkdir_throw(tk, Head(chain), validatePathError(Head(chain)))
    ELSE [tk EXCEPT !.pc = "statObject", !.stack = chain]

begin_mkdir(tk) == mkdir_validate(tk, mkdirChain(tk.path, tk.recursive))

begin_createReadStream(tk) ==
    IF ~validatePathOk(tk.path)
    THEN reject(tk, convertError(validatePathError(tk.path), tk.path, "open"))
    ELSE [tk EXCEPT !.pc = "getObject"]

\* variant: the failure of the background upload rejects instead
destroyStream_reject(tk, error) ==
    reject(tk, convertError(error, tk.path, "open"))

\* createWriteStream(): the catch of the background upload
destroyStream(tk, error) ==
    [tk EXCEPT !.pc = "done",
               !.destroyed = <<convertError(error, tk.path, "open")>>]

begin_createWriteStream(tk) ==
    IF ~validatePathOk(tk.path)
    THEN destroyStream(tk, validatePathError(tk.path))
    ELSE [tk EXCEPT !.pc = "putObject"]

begin_copyFile(tk) ==
    IF ~validatePathOk(tk.path)
    THEN reject(tk, convertError(validatePathError(tk.path), tk.path, "open"))
    ELSE IF ~validatePathOk(tk.dest)
    THEN reject(tk, convertError(validatePathError(tk.dest), tk.path, "open"))
    ELSE [tk EXCEPT !.pc = "CopyConditions"]

\* the operation continues after "await this.initialize()" returned
afterInitialize(tk) ==
    CASE tk.op = "readFile" -> begin_readFile(tk)
      [] tk.op = "writeFile" -> begin_writeFile(tk)
      [] tk.op \in {"stat", "exists"} -> begin_stat(tk)
      [] tk.op = "unlink" -> begin_unlink(tk)
      [] tk.op = "readdir" -> begin_readdir(tk)
      [] tk.op = "mkdir" -> begin_mkdir(tk)
      [] tk.op = "rmdir" -> begin_rmdir(tk)
      [] tk.op = "createReadStream" -> begin_createReadStream(tk)
      [] tk.op = "createWriteStream" -> begin_createWriteStream(tk)
      [] OTHER -> begin_copyFile(tk)

\* the operation sees "await this.initialize()" reject
failInitialize(tk, error) ==
    CASE tk.op = "exists" -> stat_throw(tk, error)
      [] tk.op = "createWriteStream" -> destroyStream(tk, error)
      [] OTHER -> reject(tk, error)

\* variant: no fast exit on the flag
enterInitialize_eager(tk) ==
    [tk EXCEPT !.pc = "bucketExists", !.bucketCalls = 1]

\* initialize(), up to its first await
enterInitialize(tk) ==
    IF initialized THEN afterInitialize(tk)
    ELSE [tk EXCEPT !.pc = "bucketExists", !.bucketCalls = 1]

(***************************************************************************)
(* Backend replies                                                         *)
(***************************************************************************)
NoError == plainError(<<>>)

\* the ways a call on an object name can end in the current state: refused by
\* the client library, failed by the environment, answered "missing", or done
callOutcomes(key, needsObject, missing) ==
    IF key = <<>> THEN {<<"refused", InvalidObjectName>>}
    ELSE {<<"fault", f>> : f \in IF faultsLeft > 0 THEN Faults ELSE {}}
         \cup (IF needsObject /\ key \notin DOMAIN store
               THEN {<<"missing", missing>>}
               ELSE {<<"ok", NoError>>})

\* listObjectsV2 accepts the empty prefix
listOutcomes ==
    {<<"fault", f>> : f \in IF faultsLeft > 0 THEN Faults ELSE {}}
    \cup {<<"ok", NoError>>}

spend(out) == IF out[1] = "fault" THEN faultsLeft - 1 ELSE faultsLeft

failed(tk, out) == [tk EXCEPT !.raw = <<out[2]>>]

\* UTF-16 code unit of the characters the model's paths are made of
CharCode(c) ==
    CASE c = "/" -> 47 [] c = "." -> 46 [] c = ":" -> 58 [] c = "a" -> 97
      [] c = "b" -> 98 [] c = "c" -> 99 [] c = "d" -> 100 [] c = "p" -> 112
      [] OTHER -> 120

\* the default comparison of Array.prototype.sort: by code units
RECURSIVE lexLess(_, _)
lexLess(x, y) ==
    IF y = <<>> THEN FALSE
    ELSE IF x = <<>> THEN TRUE
    ELSE IF CharCode(Head(x)) # CharCode(Head(y))
    THEN CharCode(Head(x)) < CharCode(Head(y))
    ELSE lexLess(Tail(x), Tail(y))

RECURSIVE insertSorted(_, _)
insertSorted(x, sorted) ==
    IF sorted = <<>> THEN <<x>>
    ELSE IF lexLess(Head(sorted), x) THEN <<Head(sorted)>> \o insertSorted(x, Tail(sorted))
    ELSE <<x>> \o sorted

RECURSIVE sort(_)
sort(names) ==
    IF names = <<>> THEN <<>> ELSE insertSorted(Head(names), sort(Tail(names)))

RECURSIVE indexOfSlash(_, _)
indexOfSlash(s, i) ==
    IF i > Len(s) THEN 0 ELSE IF s[i] = "/" THEN i ELSE indexOfSlash(s, i + 1)

\* listObjectsV2(bucket, pfx, false): the objects right below the prefix, and
\* one common prefix for each group of deeper objects
listObjectsV2(pfx) ==
    {LET rest == substring(k, Len(pfx))
         i == indexOfSlash(rest, 1)
     IN  IF i = 0 THEN [name |-> k, prefix |-> <<>>]
         ELSE [name |-> <<>>, prefix |-> SubSeq(k, 1, Len(pfx) + i)]
     : k \in {x \in DOMAIN store : startsWith(x, pfx)}}

RECURSIVE toSeq(_)
toSeq(S) ==
    IF S = {} THEN <<>>
    ELSE LET x == CHOOSE y \in S : TRUE IN <<x>> \o toSeq(S \ {x})

\* variant: the listing prefix is not removed from the name
entryName_full(obj, pfx) ==
    LET name0 == IF obj.name # <<>> THEN obj.name ELSE obj.prefix
        name2 == IF endsWith(name0, <<"/">>) THEN dropLast(name0) ELSE name0
    IN  IF indexOfSlash(name2, 1) # 0 THEN <<>> ELSE name2

\* readdir(): the name kept for one listing entry, <<>> when it is dropped
entryName(obj, pfx) ==
    LET name0 == IF obj.name # <<>> THEN obj.name ELSE obj.prefix
        name1 == IF pfx # <<>> /\ startsWith(name0, pfx)
                 THEN substring(name0, Len(pfx)) ELSE name0
        name2 == IF endsWith(name1, <<"/">>) THEN dropLast(name1) ELSE name1
    IN  IF indexOfSlash(name2, 1) # 0 THEN <<>> ELSE name2

RECURSIVE mapEntries(_, _)
mapEntries(objects, pfx) ==
    IF objects = <<>> THEN <<>>
    ELSE LET name == entryName(Head(objects), pfx)
         IN  (IF name = <<>> THEN <<>> ELSE <<name>>) \o mapEntries(Tail(objects), pfx)

\* readdir(): the sorted names of the entries that a listing returned
filenames(objects, pfx) == sort(mapEntries(toSeq(objects), pfx))

(***************************************************************************)
(* History bookkeeping                                                     *)
(***************************************************************************)
\* p's first segment holds no object
cleanUnder(p) ==
    LET segs == split(stripLeadingSlashes(posixNormalize(p)))
        pfx == getListPrefix(<<"/">> \o Head(segs)).prefix
    IN  \A k \in DOMAIN store : ~startsWith(k, pfx)

ownFresh(t) == fresh # <<>> /\ fresh[1].task = t /\ ~fresh[1].done

\* fresh after caller t changed the store and reached the task record tk
freshAfter(t, tk, changed) ==
    IF ownFresh(t)
    THEN IF tk.pc # "done" THEN fresh
         ELSE IF tk.status = "ok" THEN <<[fresh[1] EXCEPT !.done = TRUE]>>
         ELSE <<>>
    ELSE IF changed THEN <<>> ELSE fresh

\* the argument that tells the backend call awaited by tk from the others of
\* its kind: the bucket, the listing prefix, or the object key (for
\* copyObject the destination and the source)
callArgs(tk) ==
    CASE tk.pc \in {"bucketExists", "makeBucket"} -> Bucket
      [] tk.pc = "listObjectsV2" -> getListPrefix(tk.path).prefix
      [] tk.pc = "copyObject" ->
             pathToMinIO(tk.dest).key \o <<"<-">> \o pathToMinIO(tk.path).key
      [] tk.op = "mkdir" -> createDirectoryMarker(Head(tk.stack)).key
      [] tk.op = "rmdir" -> createDirectoryMarker(tk.path).key
      [] OTHER -> pathToMinIO(tk.path).key

\* the record tk that a caller's operation reached from the record old, with
\* the backend call it now awaits added to the history; putObject of
\* createWriteStream stays one call while the caller writes to the stream
issued(old, tk) ==
    IF /\ tk.pc \in {"bucketExists", "makeBucket", "getObject", "putObject",
                     "statObject", "removeObject", "listObjectsV2", "copyObject"}
       /\ ~(tk.op = "createWriteStream" /\ old.op = tk.op /\ old.pc = tk.pc)
    THEN [tk EXCEPT !.calls = Append(@, <<tk.pc, callArgs(tk)>>)]
    ELSE tk

callable(t) == tasks[t].pc \in {"idle", "done"} /\ opsLeft > 0

\* fresh when caller t starts the operation described by tk
freshAtCall(t, tk) ==
    IF tk.op = "mkdir" /\ tk.recursive /\ cleanUnder(tk.path)
    THEN <<[path |-> tk.path, task |-> t, done |-> FALSE]>>
    ELSE IF ownFresh(t) THEN <<>> ELSE fresh

\* caller t's operation ran up to its first await and reached started
start(t, started, mine) ==
    /\ tasks' = [tasks EXCEPT ![t] = issued(tasks[t], started)]
    /\ opsLeft' = opsLeft - 1
    /\ fresh' = IF mine # <<>> /\ mine[1].task = t /\ ~mine[1].done
                   /\ started.pc = "done"
                THEN <<>> ELSE mine
    /\ UNCHANGED <<prefix, initialized, bucketMade, store, faultsLeft,
                   lastWrite, lastWriteR, eh, conv, sc>>

\* caller t starts the operation described by tk
call(t, tk) ==
    start(t, enterInitialize([tk EXCEPT !.late = initialized, !.before = store]),
          freshAtCall(t, tk))

\* caller t's operation moves on to tk without touching the store
step(t, tk, out) ==
    /\ tasks' = [tasks EXCEPT ![t] = issued(tasks[t], tk)]
    /\ faultsLeft' = spend(out)
    /\ fresh' = freshAfter(t, tk, FALSE)
    /\ UNCHANGED <<prefix, initialized, bucketMade, store, opsLeft,
                   lastWrite, lastWriteR, eh, conv, sc>>

(***************************************************************************)
(* The public operations of ObjectStorage, as called                       *)
(***************************************************************************)
readFile(t, filePath, encoding) ==
    /\ callable(t)
    /\ call(t, [idleTask EXCEPT !.op = "readFile", !.path = filePath, !.enc = encoding])

writeFile(t, filePath, data) ==
    /\ callable(t)
    /\ call(t, [idleTask EXCEPT !.op = "writeFile", !.path = filePath, !.data = data])

exists(t, filePath) ==
    /\ callable(t)
    /\ call(t, [idleTask EXCEPT !.op = "exists", !.path = filePath])

stat(t, filePath) ==
    /\ callable(t)
    /\ call(t, [idleTask EXCEPT !.op = "stat", !.path = filePath])

unlink(t, filePath) ==
    /\ callable(t)
    /\ call(t, [idleTask EXCEPT !.op = "unlink", !.path = filePath])

readdir(t, dirPath) ==
    /\ callable(t)
    /\ call(t, [idleTask EXCEPT !.op = "readdir", !.path = dirPath])

mkdir(t, dirPath, recursive) ==
    /\ callable(t)
    /\ call(t, [idleTask EXCEPT !.op = "mkdir", !.path = dirPath, !.recursive = recursive])

rmdir(t, dirPath) ==
    /\ callable(t)
    /\ call(t, [idleTask EXCEPT !.op = "rmdir", !.path = dirPath])

createReadStream(t, filePath) ==
    /\ callable(t)
    /\ call(t, [idleTask EXCEPT !.op = "createReadStream", !.path = filePath])

\* the stream is returned at once; the upload goes on in the background
createWriteStream(t, filePath) ==
    /\ callable(t)
    /\ call(t, [idleTask EXCEPT !.op = "createWriteStream", !.path = filePath,
                                !.status = "ok", !.value = [NoValue EXCEPT !.kind = "stream"]])

copyFile(t, srcPath, destPath) ==
    /\ callable(t)
    /\ call(t, [idleTask EXCEPT !.op = "copyFile", !.path = srcPath, !.dest = destPath])

(***************************************************************************)
(* initialize()                                                            *)
(***************************************************************************)
\* initialize() returned to caller t's operation, which went on to tk
proceed(t, tk) ==
    /\ tasks' = [tasks EXCEPT ![t] = issued(tasks[t], tk)]
    /\ fresh' = freshAfter(t, tk, FALSE)
    /\ UNCHANGED <<prefix, store, opsLeft, faultsLeft, lastWrite, lastWriteR, eh, conv, sc>>

\* variant: the flag is set although bucketExists failed
initialize_bucketExists_flagged(t) ==
    LET tk == tasks[t]
    IN  /\ tk.pc = "bucketExists"
        /\ \E out \in listOutcomes :
            IF out[1] = "fault"
            THEN /\ tasks' = [tasks EXCEPT ![t] =
                        failInitialize(failed(tk, out),
                                       convertError(out[2], <<>>, "initialize"))]
                 /\ faultsLeft' = spend(out)
                 /\ initialized' = TRUE
                 /\ UNCHANGED <<prefix, bucketMade, store, opsLeft, lastWrite,
                                lastWriteR, fresh, eh, conv, sc>>
            ELSE IF bucketMade
            THEN /\ bucketMade' = bucketMade
                 /\ initialized' = TRUE
                 /\ proceed(t, afterInitialize(tk))
            ELSE step(t, [tk EXCEPT !.pc = "makeBucket", !.bucketCalls = 2], out)

\* the answer to bucketExists arrives
initialize_bucketExists(t) ==
    LET tk == tasks[t]
    IN  /\ tk.pc = "bucketExists"
        /\ \E out \in listOutcomes :
            IF out[1] = "fault"
            THEN step(t, failInitialize(failed(tk, out),
                                        convertError(out[2], <<>>, "initialize")), out)
            ELSE IF bucketMade
            THEN /\ bucketMade' = bucketMade
                 /\ initialized' = TRUE
                 /\ proceed(t, afterInitialize(tk))
            ELSE step(t, [tk EXCEPT !.pc = "makeBucket", !.bucketCalls = 2], out)

\* the answer to makeBucket arrives
initialize_makeBucket(t) ==
    LET tk == tasks[t]
    IN  /\ tk.pc = "makeBucket"
        /\ \E out \in listOutcomes \cup
                      (IF bucketMade THEN {<<"taken", e>> : e \in BucketTaken} ELSE {}) :
            IF out[1] # "ok"
            THEN step(t, failInitialize(failed(tk, out),
                                        convertError(out[2], <<>>, "initialize")), out)
            ELSE /\ ~bucketMade
                 /\ bucketMade' = TRUE
                 /\ initialized' = TRUE
                 /\ proceed(t, afterInitialize(tk))

\* caller t's operation moves on to tk and the store becomes objects; written
\* and writtenR are the histories of writeFile payloads that go with it
mutate(t, tk, objects, written, writtenR) ==
    /\ tasks' = [tasks EXCEPT ![t] = issued(tasks[t], tk)]
    /\ store' = objects
    /\ lastWrite' = written
    /\ lastWriteR' = writtenR
    /\ fresh' = freshAfter(t, tk, TRUE)
    /\ UNCHANGED <<prefix, initialized, bucketMade, opsLeft, faultsLeft, eh, conv, sc>>

(***************************************************************************)
(* The public operations, resumed by the answer to a backend call          *)
(***************************************************************************)
readFile_getObject(t) ==
    LET tk == tasks[t]
        key == pathToMinIO(tk.path).key
    IN  /\ tk.op = "readFile" /\ tk.pc = "getObject"
        /\ \E out \in callOutcomes(key, TRUE, NoSuchKey) :
            IF out[1] # "ok"
            THEN step(t, reject(failed(tk, out), convertError(out[2], tk.path, "open")), out)
            ELSE step(t, resolve(tk, IF tk.enc # ""
                                     THEN textValue(utf8Decode(store[key]))
                                     ELSE bytesValue(store[key])), out)

writeFile_putObject(t) ==
    LET tk == tasks[t]
        key == pathToMinIO(tk.path).key
    IN  /\ tk.op = "writeFile" /\ tk.pc = "putObject"
        /\ \E out \in callOutcomes(key, FALSE, NoError) :
            IF out[1] # "ok"
            THEN step(t, reject(failed(tk, out), convertError(out[2], tk.path, "open")), out)
            ELSE mutate(t, resolve(tk, NoValue),
                        Put(store, key, toReadableStream(tk.data)),
                        Put(lastWrite, key, tk.data), Put(lastWriteR, key, tk.data))

\* stat(), also when exists() called it
stat_statObject(t) ==
    LET tk == tasks[t]
        key == pathToMinIO(tk.path).key
    IN  /\ tk.op \in {"stat", "exists"} /\ tk.pc = "statObject"
        /\ \E out \in callOutcomes(key, TRUE, NotFound) :
            IF out[1] # "ok"
            THEN step(t, stat_throw([failed(tk, out) EXCEPT !.probe = out[1]],
                                    convertError(out[2], tk.path, "stat")), out)
            ELSE step(t, stat_return([tk EXCEPT !.probe = "ok"], Len(store[key])), out)

unlink_statObject(t) ==
    LET tk == tasks[t]
        key == pathToMinIO(tk.path).key
    IN  /\ tk.op = "unlink" /\ tk.pc = "statObject"
        /\ \E out \in callOutcomes(key, TRUE, NotFound) :
            IF out[1] # "ok"
            THEN step(t, unlink_throw([failed(tk, out) EXCEPT !.probe = out[1]],
                                      convertError(out[2], tk.path, "unlink")), out)
            ELSE step(t, [tk EXCEPT !.pc = "removeObject", !.probe = "ok"], out)

unlink_removeObject(t) ==
    LET tk == tasks[t]
        key == pathToMinIO(tk.path).key
    IN  /\ tk.op = "unlink" /\ tk.pc = "removeObject"
        /\ \E out \in callOutcomes(key, FALSE, NoError) :
            IF out[1] # "ok"
            THEN step(t, unlink_throw(failed(tk, out), out[2]), out)
            ELSE mutate(t, resolve(tk, NoValue), Del(store, key),
                        Del(lastWrite, key), Del(lastWriteR, key))

\* readdir(), also when rmdir() called it
readdir_listObjectsV2(t) ==
    LET tk == tasks[t]
        pfx == getListPrefix(tk.path).prefix
        names == filenames(listObjectsV2(pfx), pfx)
    IN  /\ tk.op \in {"readdir", "rmdir"} /\ tk.pc = "listObjectsV2"
        /\ \E out \in listOutcomes :
            IF out[1] # "ok"
            THEN step(t, IF tk.op = "rmdir"
                         THEN rmdir_throw(failed(tk, out),
                                          convertError(out[2], tk.path, "scandir"))
                         ELSE reject(failed(tk, out),
                                     convertError(out[2], tk.path, "scandir")), out)
            ELSE step(t, IF tk.op = "readdir" THEN resolve(tk, namesValue(names))
                         ELSE IF Len(names) > 0
                         THEN rmdir_throw(tk, createError("ENOTEMPTY", tk.path, "rmdir"))
                         ELSE [tk EXCEPT !.pc = "removeObject"], out)

\* variant: the objects below the directory go with the marker
rmdir_removeObject_tree(t) ==
    LET tk == tasks[t]
        key == createDirectoryMarker(tk.path).key
        kept == {k \in DOMAIN store : ~startsWith(k, key)}
    IN  /\ tk.op = "rmdir" /\ tk.pc = "removeObject"
        /\ \E out \in callOutcomes(key, FALSE, NoError) :
            IF out[1] # "ok"
            THEN step(t, rmdir_throw(failed(tk, out), out[2]), out)
            ELSE mutate(t, resolve(tk, NoValue), [k \in kept |-> store[k]],
                        lastWrite, Del(lastWriteR, key))

rmdir_removeObject(t) ==
    LET tk == tasks[t]
        key == createDirectoryMarker(tk.path).key
    IN  /\ tk.op = "rmdir" /\ tk.pc = "removeObject"
        /\ \E out \in callOutcomes(key, FALSE, NoError) :
            IF out[1] # "ok"
            THEN step(t, rmdir_throw(failed(tk, out), out[2]), out)
            ELSE mutate(t, resolve(tk, NoValue), Del(store, key),
                        lastWrite, Del(lastWriteR, key))

\* mkdir(): the call on the head of the chain returns; its caller goes on
mkdir_return(tk) ==
    IF Len(tk.stack) = 1 THEN resolve([tk EXCEPT !.stack = <<>>], NoValue)
    ELSE [tk EXCEPT !.pc = "statObject", !.stack = Tail(tk.stack)]

\* variant: whatever the probe throws means "missing"
probeSaysMissing_any(error) == TRUE

\* mkdir(): the catch around the existence probe lets these errors pass
probeSaysMissing(error) ==
    \/ error.code = "NotFound"
    \/ includes(error.message, "Not Found")
    \/ isNotFoundError(error)

mkdir_statObject(t) ==
    LET tk == tasks[t]
        dirPath == Head(tk.stack)
        key == createDirectoryMarker(dirPath).key
        eexist == createError("EEXIST", dirPath, "mkdir")
    IN  /\ tk.op = "mkdir" /\ tk.pc = "statObject"
        /\ \E out \in callOutcomes(key, TRUE, NotFound) :
            IF out[1] = "ok"
            THEN IF ~tk.recursive
                 THEN IF probeSaysMissing(eexist)
                      THEN step(t, [tk EXCEPT !.pc = "putObject", !.probe = "ok"], out)
                      ELSE step(t, mkdir_throw([tk EXCEPT !.probe = "ok"], dirPath,
                                               convertError(eexist, dirPath, "mkdir")), out)
                 ELSE step(t, mkdir_return([tk EXCEPT !.probe = "ok"]), out)
            ELSE IF probeSaysMissing(out[2])
            THEN step(t, [tk EXCEPT !.pc = "putObject", !.probe = out[1]], out)
            ELSE step(t, mkdir_throw([failed(tk, out) EXCEPT !.probe = out[1]], dirPath,
                                     convertError(out[2], dirPath, "mkdir")), out)

\* variant: a failed putObject is issued again
mkdir_putObject_retry(t) ==
    LET tk == tasks[t]
        dirPath == Head(tk.stack)
        key == createDirectoryMarker(dirPath).key
    IN  /\ tk.op = "mkdir" /\ tk.pc = "putObject"
        /\ \E out \in callOutcomes(key, FALSE, NoError) :
            IF out[1] # "ok"
            THEN step(t, failed(tk, out), out)
            ELSE mutate(t, mkdir_return(tk), Put(store, key, <<>>),
                        lastWrite, Del(lastWriteR, key))

mkdir_putObject(t) ==
    LET tk == tasks[t]
        dirPath == Head(tk.stack)
        key == createDirectoryMarker(dirPath).key
    IN  /\ tk.op = "mkdir" /\ tk.pc = "putObject"
        /\ \E out \in callOutcomes(key, FALSE, NoError) :
            IF out[1] # "ok"
            THEN step(t, mkdir_throw(failed(tk, out), dirPath, out[2]), out)
            ELSE mutate(t, mkdir_return(tk), Put(store, key, <<>>),
                        lastWrite, Del(lastWriteR, key))

createReadStream_getObject(t) ==
    LET tk == tasks[t]
        key == pathToMinIO(tk.path).key
    IN  /\ tk.op = "createReadStream" /\ tk.pc = "getObject"
        /\ \E out \in callOutcomes(key, TRUE, NoSuchKey) :
            IF out[1] # "ok"
            THEN step(t, reject(failed(tk, out), convertError(out[2], tk.path, "open")), out)
            ELSE step(t, resolve(tk, [NoValue EXCEPT !.kind = "stream",
                                                     !.bytes = store[key]]), out)

\* the caller writes a chunk to the stream that createWriteStream returned
streamWrite(t, chunk) ==
    LET tk == tasks[t]
    IN  /\ tk.op = "createWriteStream" /\ ~tk.ended /\ tk.destroyed = <<>>
        /\ Len(tk.chunks) < MaxChunks
        /\ step(t, [tk EXCEPT !.chunks = Append(tk.chunks, chunk)], <<"ok", NoError>>)

\* the caller ends the stream
streamEnd(t) ==
    LET tk == tasks[t]
    IN  /\ tk.op = "createWriteStream" /\ ~tk.ended /\ tk.destroyed = <<>>
        /\ step(t, [tk EXCEPT !.ended = TRUE], <<"ok", NoError>>)

RECURSIVE concat(_)
concat(chunks) == IF chunks = <<>> THEN <<>> ELSE Head(chunks) \o concat(Tail(chunks))

\* the upload ends: with a failure at any time, with success once the stream ended
createWriteStream_putObject(t) ==
    LET tk == tasks[t]
        key == pathToMinIO(tk.path).key
    IN  /\ tk.op = "createWriteStream" /\ tk.pc = "putObject"
        /\ \E out \in callOutcomes(key, FALSE, NoError) :
            IF out[1] # "ok"
            THEN step(t, destroyStream(failed(tk, out), out[2]), out)
            ELSE /\ tk.ended
                 /\ mutate(t, [tk EXCEPT !.pc = "done"], Put(store, key, concat(tk.chunks)),
                           Del(lastWrite, key), Del(lastWriteR, key))

\* "new this.minioClient.CopyConditions()": the client object may lack the
\* constructor, which the library exports next to the Client class
copyFile_CopyConditions(t) ==
    LET tk == tasks[t]
        typeError == plainError(<<"this.minioClient.CopyConditions is not a constructor">>)
    IN  /\ tk.op = "copyFile" /\ tk.pc = "CopyConditions"
        /\ \/ step(t, reject(tk, convertError(typeError, tk.path, "open")), <<"ok", NoError>>)
           \/ step(t, [tk EXCEPT !.pc = "copyObject"], <<"ok", NoError>>)

copyFile_copyObject(t) ==
    LET tk == tasks[t]
        srcKey == pathToMinIO(tk.path).key
        destKey == pathToMinIO(tk.dest).key
    IN  /\ tk.op = "copyFile" /\ tk.pc = "copyObject"
        /\ \E out \in IF destKey = <<>> THEN callOutcomes(destKey, FALSE, NoError)
                      ELSE callOutcomes(srcKey, TRUE, NoSuchKey) :
            IF out[1] # "ok"
            THEN step(t, reject(failed(tk, out), convertError(out[2], tk.path, "open")), out)
            ELSE mutate(t, resolve(tk, NoValue), Put(store, destKey, store[srcKey]),
                        Del(lastWrite, destKey), Del(lastWriteR, destKey))

(***************************************************************************)
(* The inputs of the exploration                                           *)
(***************************************************************************)
\* "/a": a directory
PathA == <<"/", "a">>

\* "/a/": the same directory, which is also a valid file path
PathADir == <<"/", "a", "/">>

\* "/a/c": a file or a directory below /a
PathAC == <<"/", "a", "/", "c">>

\* "a:": a path that validatePath rejects
PathBad == <<"a", ":">>

\* "/b": the configured bucket as a path, the root of the stored keys
PathB == <<"/", "b">>

\* "/b/a/c": a directory named with the bucket in front
PathBAC == <<"/", "b", "/", "a", "/", "c">>

\* the paths given to the operations that only probe or stream
ProbePaths == {PathAC, PathBad}

FilePaths == {PathAC, PathADir, PathBad}

MkdirPaths == {PathA, PathAC, PathBAC, PathBad}

ReaddirPaths == {PathA, PathB, <<"/", "b", "/", "a">>, PathBad}

RmdirPaths == {PathA, PathADir, PathAC, PathBad}

Prefixes == {<<>>, <<"p">>}

\* "He" with an acute accent, a lone high surrogate, an emoji (a surrogate
\* pair), the empty string, and a buffer that is not UTF-8
Payloads ==
    {[kind |-> "string", v |-> <<72, 233>>],
     [kind |-> "string", v |-> <<55357>>],
     [kind |-> "string", v |-> <<55357, 56832>>],
     [kind |-> "string", v |-> <<>>],
     [kind |-> "buffer", v |-> <<255>>]}

Chunks == {<<72>>}

\* writeFile: every payload goes to /a/c, one payload to the other paths
Writes ==
    {<<PathAC, d>> : d \in Payloads}
    \cup {<<p, [kind |-> "string", v |-> <<72, 233>>]>> : p \in FilePaths}

\* the object that a bucket found at construction may hold already
InitialStores == {Empty, [k \in {<<"a", "/", "c">>} |-> <<72>>]}

NoSplit == [bucket |-> <<>>, key |-> <<>>]

convIdle == [stage |-> "idle", p |-> <<>>, once |-> <<>>, twice |-> <<>>,
             split |-> NoSplit, slashed |-> NoSplit, joined |-> <<>>,
             back |-> NoSplit, direct |-> NoSplit,
             key |-> <<>>, rootKey |-> <<>>, bucketKey |-> <<>>, bare |-> <<>>,
             underBucket |-> <<>>]

scIdle == [fn |-> "", stream |-> "", first |-> "", emitted |-> <<>>, failure |-> <<>>,
           chunks |-> <<>>, promise |-> "", value |-> <<>>, reason |-> <<>>,
           settled |-> 0]

ehIdle == [stage |-> "idle", in |-> NoError, path |-> <<>>, op |-> "",
           out |-> <<>>, path2 |-> <<>>, op2 |-> "", out2 |-> <<>>]

(***************************************************************************)
(* One caller at a time: every operation is awaited before the next starts *)
(***************************************************************************)
Init ==
    /\ prefix \in Prefixes
    /\ initialized = FALSE
    /\ bucketMade \in BOOLEAN
    /\ store \in IF bucketMade /\ prefix = <<>> THEN InitialStores ELSE {Empty}
    /\ tasks = [t \in Tasks |-> idleTask]
    /\ opsLeft = MaxOps
    /\ faultsLeft = MaxFaults
    /\ lastWrite = Empty
    /\ lastWriteR = Empty
    /\ fresh = <<>>
    /\ eh = ehIdle
    /\ conv = convIdle
    /\ sc = scIdle

Caller == 1

Next ==
    \/ \E p \in FilePaths, e \in {"", "utf8"} : readFile(Caller, p, e)
    \/ \E w \in Writes : writeFile(Caller, w[1], w[2])
    \/ \E p \in ProbePaths : exists(Caller, p)
    \/ \E p \in ProbePaths : stat(Caller, p)
    \/ \E p \in FilePaths : unlink(Caller, p)
    \/ \E p \in ReaddirPaths : readdir(Caller, p)
    \/ \E p \in MkdirPaths, r \in BOOLEAN : mkdir(Caller, p, r)
    \/ \E p \in RmdirPaths : rmdir(Caller, p)
    \/ \E p \in ProbePaths : createReadStream(Caller, p)
    \/ \E p \in ProbePaths : createWriteStream(Caller, p)
    \/ \E p \in ProbePaths, q \in FilePaths : copyFile(Caller, p, q)
    \/ initialize_bucketExists(Caller)
    \/ initialize_makeBucket(Caller)
    \/ readFile_getObject(Caller)
    \/ writeFile_putObject(Caller)
    \/ stat_statObject(Caller)
    \/ unlink_statObject(Caller)
    \/ unlink_removeObject(Caller)
    \/ readdir_listObjectsV2(Caller)
    \/ rmdir_removeObject(Caller)
    \/ mkdir_statObject(Caller)
    \/ mkdir_putObject(Caller)
    \/ createReadStream_getObject(Caller)
    \/ \E c \in Chunks : streamWrite(Caller, c)
    \/ streamEnd(Caller)
    \/ createWriteStream_putObject(Caller)
    \/ copyFile_CopyConditions(Caller)
    \/ copyFile_copyObject(Caller)

Spec == Init /\ [][Next]_vars

(***************************************************************************)
(* Callers that do not wait for each other: two first calls race through   *)
(* initialize()                                                            *)
(***************************************************************************)
NextRace ==
    \E t \in Tasks :
        \/ \E p \in {PathAC, PathBad} : exists(t, p)
        \/ \E p \in {PathAC} : stat(t, p)
        \/ initialize_bucketExists(t)
        \/ initialize_makeBucket(t)
        \/ stat_statObject(t)

SpecRace == Init /\ [][NextRace]_vars

(***************************************************************************)
(* readdir() and mkdir() on an initialized client, over the stores that    *)
(* writeFile and mkdir can build                                           *)
(***************************************************************************)
PathRoot == <<"/">>

PathAB == <<"/", "a", "b">>

ListFiles ==
    {PathADir, PathAC, PathAC \o <<"/">>, PathAC \o <<"/", "d">>,
     PathAB, PathAB \o <<"/", "c">>}

ListPaths == {PathRoot, PathA, PathADir, PathAC, PathAB, PathB}

MarkerPaths == {PathRoot, PathB, PathA, PathAC}

\* the object that a writeFile or mkdir call on the path leaves at its key
stored(keys) == [k \in keys |-> IF endsWith(k, separator) THEN <<>> ELSE <<72>>]

InitList ==
    /\ prefix \in Prefixes
    /\ initialized = TRUE
    /\ bucketMade = TRUE
    /\ store \in {stored(keys) : keys \in SUBSET {pathToMinIO(f).key : f \in ListFiles}}
    /\ tasks = [t \in Tasks |-> idleTask]
    /\ opsLeft = MaxOps
    /\ faultsLeft = MaxFaults
    /\ lastWrite = Empty
    /\ lastWriteR = Empty
    /\ fresh = <<>>
    /\ eh = ehIdle
    /\ conv = convIdle
    /\ sc = scIdle

NextList ==
    \/ \E p \in ListPaths : readdir(Caller, p)
    \/ \E p \in MarkerPaths, r \in BOOLEAN : mkdir(Caller, p, r)
    \/ readdir_listObjectsV2(Caller)
    \/ mkdir_statObject(Caller)
    \/ mkdir_putObject(Caller)

SpecList == InitList /\ [][NextList]_vars

(***************************************************************************)
(* Two callers whose directory operations and writes overlap               *)
(***************************************************************************)
PathAD == <<"/", "a", "/", "d">>

ParMkdirPaths == {PathAC, PathAD}

ParRmdirPaths == {PathA, PathAC}

NextPar ==
    \E t \in Tasks :
        \/ \E p \in ParMkdirPaths : mkdir(t, p, TRUE)
        \/ \E p \in ParRmdirPaths : rmdir(t, p)
        \/ writeFile(t, PathAC, [kind |-> "buffer", v |-> <<72>>])
        \/ initialize_bucketExists(t)
        \/ initialize_makeBucket(t)
        \/ mkdir_statObject(t)
        \/ mkdir_putObject(t)
        \/ readdir_listObjectsV2(t)
        \/ rmdir_removeObject(t)
        \/ writeFile_putObject(t)

\* as Init, with no key prefix configured
InitPar ==
    /\ prefix = <<>>
    /\ initialized = FALSE
    /\ bucketMade \in BOOLEAN
    /\ store \in IF bucketMade THEN InitialStores ELSE {Empty}
    /\ tasks = [t \in Tasks |-> idleTask]
    /\ opsLeft = MaxOps
    /\ faultsLeft = MaxFaults
    /\ lastWrite = Empty
    /\ lastWriteR = Empty
    /\ fresh = <<>>
    /\ eh = ehIdle
    /\ conv = convIdle
    /\ sc = scIdle

SpecPar == InitPar /\ [][NextPar]_vars

(***************************************************************************)
(* ErrorHandler.convertError applied to one error, and to its own result   *)
(***************************************************************************)
ErrCodes ==
    {"", "NoSuchKey", "NoSuchBucket", "BucketNotFound", "AccessDenied",
     "InvalidBucketName", "BucketAlreadyExists", "KeyTooLong", "ECONNREFUSED",
     "NotFound", "UnknownError"}

ErrMessages ==
    {<<>>,
     <<"UnknownError: Something went wrong.">>,
     <<"The specified ", "key does not exist", ".">>,
     <<"Not Found">>,
     <<"NoSuchBucket", ": The specified ", "bucket does not exist", ".">>,
     <<"access denied", " (", "Not Found", ")">>,
     <<"AccessDenied", ": ", "bucket does not exist">>,
     <<"getaddrinfo ", "ENOTFOUND", " after ", "timeout">>,
     <<"connect ", "ECONNREFUSED", " ", "ETIMEDOUT">>,
     <<"request ", "timeout">>}

\* errors of the object store and of the client library: no errno
S3Errors ==
    {[code |-> c, errno |-> 0, syscall |-> "", path |-> <<>>, message |-> m,
      originalError |-> <<>>] : c \in ErrCodes, m \in ErrMessages}

\* errors of the socket layer of Node.js on Linux: code, errno and syscall
SystemErrors ==
    {[code |-> "ECONNREFUSED", errno |-> -111, syscall |-> "connect", path |-> <<>>,
      message |-> <<"connect ", "ECONNREFUSED", " 127.0.0.1:9000">>,
      originalError |-> <<>>],
     [code |-> "ECONNRESET", errno |-> -104, syscall |-> "read", path |-> <<>>,
      message |-> <<"read ", "ECONNRESET">>, originalError |-> <<>>]}

ErrInputs == S3Errors \cup SystemErrors

ErrPaths == {<<>>, PathAC}

ErrOps == {"", "open", "stat"}

InitErr ==
    /\ prefix = <<>>
    /\ initialized = FALSE
    /\ bucketMade = FALSE
    /\ store = Empty
    /\ tasks = [t \in Tasks |-> idleTask]
    /\ opsLeft = 0
    /\ faultsLeft = 0
    /\ lastWrite = Empty
    /\ lastWriteR = Empty
    /\ fresh = <<>>
    /\ eh \in {[ehIdle EXCEPT !.stage = "input", !.in = e, !.path = p, !.op = o] :
                 e \in ErrInputs, p \in ErrPaths, o \in ErrOps}
    /\ conv = convIdle
    /\ sc = scIdle

\* a catch block converts the error it caught
Convert ==
    /\ eh.stage = "input"
    /\ eh' = [eh EXCEPT !.stage = "converted",
                        !.out = <<convertError(eh.in, eh.path, eh.op)>>]
    /\ UNCHANGED <<clientVars, conv, sc>>

\* an outer catch block converts the result again
Reconvert ==
    /\ eh.stage = "converted"
    /\ \E p2 \in ErrPaths, o2 \in ErrOps :
        eh' = [eh EXCEPT !.stage = "reconverted", !.path2 = p2, !.op2 = o2,
                         !.out2 = <<convertError(eh.out[1], p2, o2)>>]
    /\ UNCHANGED <<clientVars, conv, sc>>

NextErr == Convert \/ Reconvert

SpecErr == InitErr /\ [][NextErr]_vars

(***************************************************************************)
(* PathConverter applied to one path                                       *)
(***************************************************************************)
MaxPathLen == 5

PathChars == {"/", ".", "a", "b"}

PathInputs == UNION {[1..n -> PathChars] : n \in 0..MaxPathLen}

\* options.prefix: none, a plain one, and one written with a separator
PathPrefixes == {<<>>, <<"p">>, <<"/", "p">>, <<"p", "/">>}

InitPath ==
    /\ prefix \in PathPrefixes
    /\ initialized = FALSE
    /\ bucketMade = FALSE
    /\ store = Empty
    /\ tasks = [t \in Tasks |-> idleTask]
    /\ opsLeft = 0
    /\ faultsLeft = 0
    /\ lastWrite = Empty
    /\ lastWriteR = Empty
    /\ fresh = <<>>
    /\ eh = ehIdle
    /\ conv \in {[convIdle EXCEPT !.stage = "input", !.p = p] : p \in PathInputs}
    /\ sc = scIdle

\* normalizePath(p), and normalizePath of the result
NormalizePath ==
    /\ conv.stage = "input"
    /\ conv' = [conv EXCEPT !.stage = "normalizePath",
                            !.once = normalizePath(conv.p),
                            !.twice = normalizePath(normalizePath(conv.p))]
    /\ UNCHANGED <<clientVars, eh, sc>>

\* splitPath(p) and splitPath('/' + p)
SplitPath ==
    /\ conv.stage = "input"
    /\ conv' = [conv EXCEPT !.stage = "splitPath",
                            !.split = splitPath(conv.p),
                            !.slashed = splitPath(<<"/">> \o conv.p)]
    /\ UNCHANGED <<clientVars, eh, sc>>

\* the parts are joined and split again; p is normalized and split
JoinPath ==
    /\ conv.stage = "splitPath"
    /\ conv' = [conv EXCEPT !.stage = "joinPath",
                            !.joined = joinPath(conv.split.bucket, conv.split.key),
                            !.back = splitPath(joinPath(conv.split.bucket, conv.split.key)),
                            !.direct = splitPath(normalizePath(conv.p))]
    /\ UNCHANGED <<clientVars, eh, sc>>

\* pathToMinIO on p, on the root, on '/' + bucket, on '/' + p and on
\* '/' + bucket + '/' + p
PathToMinIO ==
    /\ conv.stage = "input"
    /\ conv' = [conv EXCEPT !.stage = "pathToMinIO",
                            !.key = pathToMinIO(conv.p).key,
                            !.rootKey = pathToMinIO(<<"/">>).key,
                            !.bucketKey = pathToMinIO(<<"/">> \o Bucket).key,
                            !.bare = pathToMinIO(<<"/">> \o conv.p).key,
                            !.underBucket =
                                pathToMinIO(<<"/">> \o Bucket \o <<"/">> \o conv.p).key]
    /\ UNCHANGED <<clientVars, eh, sc>>

NextPath == NormalizePath \/ SplitPath \/ JoinPath \/ PathToMinIO

SpecPath == InitPath /\ [][NextPath]_vars

(***************************************************************************)
(* StreamConverter: a stream is consumed into a promise                    *)
(***************************************************************************)
\* events a stream emits in one behaviour
MaxEmits == 3

EmitChunks == {<<72>>, <<105>>, <<72, 105>>}

StreamErrors == {plainError(<<"Stream error">>), plainError(<<"Write error">>)}

\* the resolve and reject functions of "new Promise": the first call settles
\* the promise, later calls do nothing
promiseResolve(s, v) ==
    IF s.promise = "pending"
    THEN [s EXCEPT !.promise = "resolved", !.value = v, !.settled = @ + 1]
    ELSE s

promiseReject(s, error) ==
    IF s.promise = "pending"
    THEN [s EXCEPT !.promise = "rejected", !.reason = <<error>>, !.settled = @ + 1]
    ELSE s

\* variant: a chunk is put in front of the others
streamToBuffer_data_unshift(s, chunk) == [s EXCEPT !.chunks = <<chunk>> \o @]

\* streamToBuffer: the handlers of 'data', 'end' and 'error'
streamToBuffer_data(s, chunk) == [s EXCEPT !.chunks = Append(@, chunk)]

streamToBuffer_end(s) == promiseResolve(s, concat(s.chunks))

streamToBuffer_error(s, error) == promiseReject(s, error)

\* streamToBuffer(stream) was called on a stream that has emitted nothing;
\* createPassThrough() has returned "new PassThrough()", and nothing else
InitStream ==
    /\ prefix = <<>>
    /\ initialized = FALSE
    /\ bucketMade = FALSE
    /\ store = Empty
    /\ tasks = [t \in Tasks |-> idleTask]
    /\ opsLeft = 0
    /\ faultsLeft = 0
    /\ lastWrite = Empty
    /\ lastWriteR = Empty
    /\ fresh = <<>>
    /\ eh = ehIdle
    /\ conv = convIdle
    /\ sc \in {[scIdle EXCEPT !.fn = "streamToBuffer", !.stream = "open",
                              !.promise = "pending"],
               [scIdle EXCEPT !.fn = "createPassThrough", !.stream = "open",
                              !.promise = "none"]}

\* the stream emits 'data'
EmitData ==
    /\ sc.fn = "streamToBuffer" /\ sc.stream = "open" /\ Len(sc.emitted) < MaxEmits
    /\ \E chunk \in EmitChunks :
        sc' = [streamToBuffer_data(sc, chunk) EXCEPT !.emitted = Append(@, chunk)]
    /\ UNCHANGED <<clientVars, eh, conv>>

\* the stream emits 'end'
EmitEnd ==
    /\ sc.fn = "streamToBuffer" /\ sc.stream = "open"
    /\ sc' = [streamToBuffer_end(sc) EXCEPT !.stream = "ended",
                                            !.first = IF @ = "" THEN "end" ELSE @]
    /\ UNCHANGED <<clientVars, eh, conv>>

\* the stream emits 'error', once; an implementation that emits it by hand
\* goes on, and an error can follow the end
EmitError ==
    /\ sc.fn = "streamToBuffer" /\ sc.failure = <<>>
    /\ \E error \in StreamErrors :
        sc' = [streamToBuffer_error(sc, error) EXCEPT
                   !.failure = <<error>>, !.first = IF @ = "" THEN "error" ELSE @]
    /\ UNCHANGED <<clientVars, eh, conv>>

\* the caller writes a chunk to the PassThrough, which hands it on
SinkWrite ==
    /\ sc.fn = "createPassThrough" /\ sc.stream = "open"
    /\ sc.failure = <<>> /\ Len(sc.emitted) < MaxEmits
    /\ \E chunk \in EmitChunks :
        sc' = [sc EXCEPT !.chunks = Append(@, chunk), !.emitted = Append(@, chunk)]
    /\ UNCHANGED <<clientVars, eh, conv>>

\* the caller ends the PassThrough
SinkEnd ==
    /\ sc.fn = "createPassThrough" /\ sc.stream = "open" /\ sc.failure = <<>>
    /\ sc' = [sc EXCEPT !.stream = "ended", !.first = IF @ = "" THEN "end" ELSE @]
    /\ UNCHANGED <<clientVars, eh, conv>>

\* the PassThrough emits 'error'
SinkError ==
    /\ sc.fn = "createPassThrough" /\ sc.failure = <<>>
    /\ \E error \in StreamErrors :
        sc' = [sc EXCEPT !.failure = <<error>>, !.first = IF @ = "" THEN "error" ELSE @]
    /\ UNCHANGED <<clientVars, eh, conv>>

NextStream == EmitData \/ EmitEnd \/ EmitError \/ SinkWrite \/ SinkEnd \/ SinkError

SpecStream == InitStream /\ [][NextStream]_vars

(***************************************************************************)
(* Properties                                                              *)
(***************************************************************************)
\* the bytes of a payload: a string counts as its UTF-8 encoding
bytesOf(data) == IF data.kind = "string" THEN utf8Encode(data.v) ELSE data.v

\* a string in which every surrogate is half of a pair
RECURSIVE wellFormed(_)
wellFormed(units) ==
    IF units = <<>> THEN TRUE
    ELSE IF isHighSurrogate(Head(units))
    THEN Len(units) >= 2 /\ isLowSurrogate(units[2]) /\ wellFormed(Tail(Tail(units)))
    ELSE ~isLowSurrogate(Head(units)) /\ wellFormed(Tail(units))

\* the caller's last operation was op and has ended
ended(op) == tasks[Caller].op = op /\ tasks[Caller].pc = "done"

\* the caller's last operation ended because a backend call failed for a
\* reason of the environment
backendFailed == tasks[Caller].raw # <<>> /\ tasks[Caller].raw[1] \in Faults

\* readFile(p) and readFile(p, 'utf8') return what was written, given the
\* payload that the history holds for p's key
readsBack(written) ==
    LET tk == tasks[Caller]
        key == pathToMinIO(tk.path).key
    IN  (ended("readFile") /\ key \in DOMAIN written) =>
            \/ tk.status = "err" /\ backendFailed
            \/ /\ tk.status = "ok"
               /\ tk.enc = "" => tk.value.kind = "bytes" /\ tk.value.bytes = bytesOf(written[key])
               /\ (tk.enc = "utf8" /\ written[key].kind = "string") =>
                      tk.value.kind = "text" /\ tk.value.bytes = written[key].v

\* C1 as stated: after writeFile(p, d) succeeded, and while no write, unlink
\* or copy has touched p's key, readFile(p) returns the bytes of d and
\* readFile(p, 'utf8') returns d when d is a string
C1_AsStated == readsBack(lastWrite)

\* C1, amended: after writeFile(p, d) succeeded, and while no write, unlink,
\* copy, mkdir or rmdir has touched p's key, readFile(p) returns the bytes of d
\* unless the backend fails, and readFile(p, 'utf8') returns d when d is a
\* string without unpaired surrogates
C1_WriteThenRead ==
    LET tk == tasks[Caller]
        key == pathToMinIO(tk.path).key
    IN  (ended("readFile") /\ key \in DOMAIN lastWriteR) =>
            \/ tk.status = "err" /\ backendFailed
            \/ /\ tk.status = "ok"
               /\ tk.enc = "" => tk.value.kind = "bytes" /\ tk.value.bytes = bytesOf(lastWriteR[key])
               /\ (tk.enc = "utf8" /\ lastWriteR[key].kind = "string"
                   /\ wellFormed(lastWriteR[key].v)) =>
                      tk.value.kind = "text" /\ tk.value.bytes = lastWriteR[key].v

\* a string with an accent was written and read back with 'utf8'
C1_Witness ==
    LET tk == tasks[Caller]
        key == pathToMinIO(tk.path).key
    IN  /\ ended("readFile") /\ tk.status = "ok" /\ tk.enc = "utf8"
        /\ key \in DOMAIN lastWriteR
        /\ lastWriteR[key] = [kind |-> "string", v |-> <<72, 233>>]
        /\ tk.value.bytes = <<72, 233>>
        /\ store[key] = <<72, 195, 169>>

\* C2: exists(p) resolves to false when the backend stat of p's key fails with
\* a not-found error, resolves to true when the stat succeeds, and rejects
\* with the converted error (EACCES for a denial) when the stat fails otherwise
C2_Exists ==
    LET tk == tasks[Caller]
        notFound == tk.raw[1].code \in {"NotFound", "NoSuchKey", "NoSuchBucket"}
    IN  (ended("exists") /\ tk.probe # "") =>
            /\ tk.probe = "ok" => tk.status = "ok" /\ tk.value.bool
            /\ (tk.probe # "ok" /\ notFound) => tk.status = "ok" /\ ~tk.value.bool
            /\ (tk.probe # "ok" /\ ~notFound) =>
                   /\ tk.status = "err"
                   /\ tk.error = <<convertError(tk.raw[1], tk.path, "stat")>>
                   /\ tk.raw[1].code = "AccessDenied" => tk.error[1].code = "EACCES"

\* exists() rejected with EACCES after the backend denied the stat
C2_Witness ==
    /\ ended("exists") /\ tasks[Caller].probe = "fault"
    /\ tasks[Caller].status = "err"
    /\ tasks[Caller].error[1].code = "EACCES"
    /\ tasks[Caller].error[1].originalError[1].code = "AccessDenied"

\* the objects of a store that lie below directory p
objectsBelow(objects, p) ==
    LET pfx == getListPrefix(p).prefix
    IN  {k \in DOMAIN objects : startsWith(k, pfx) /\ k # pfx}

\* C3: rmdir(p), for a path p that validatePath accepts, on a directory with
\* an object below it rejects with ENOTEMPTY
\* and leaves every object, p's marker included, in place; on a directory
\* with no object below it (all were removed) rmdir(p) succeeds, unless a
\* backend call fails
C3_Rmdir ==
    LET tk == tasks[Caller]
    IN  (ended("rmdir") /\ validatePathOk(tk.path)) =>
            /\ objectsBelow(tk.before, tk.path) # {} =>
                   /\ tk.status = "err"
                   /\ store = tk.before
                   /\ tk.raw = <<>> => tk.error[1].code = "ENOTEMPTY"
            /\ (objectsBelow(tk.before, tk.path) = {} /\ tk.raw = <<>>) =>
                   /\ tk.status = "ok"
                   /\ store = Del(tk.before, createDirectoryMarker(tk.path).key)

\* rmdir rejected with ENOTEMPTY on a directory that has its marker and an
\* object below it
C3_Witness ==
    LET tk == tasks[Caller]
    IN  /\ ended("rmdir") /\ tk.status = "err" /\ tk.error[1].code = "ENOTEMPTY"
        /\ createDirectoryMarker(tk.path).key \in DOMAIN store
        /\ objectsBelow(store, tk.path) # {}

\* the segments of a path, after normalisation
segments(p) ==
    LET n == stripLeadingSlashes(posixNormalize(p))
        m == IF endsWith(n, <<"/">>) THEN dropLast(n) ELSE n
    IN  IF m = <<>> THEN <<>> ELSE split(m)

ObjectCalls ==
    {"getObject", "putObject", "statObject", "removeObject", "listObjectsV2", "copyObject"}

\* C5: an operation has an object-level backend call pending only when the
\* bucket was found or created and the flag is set; and an operation that
\* began with the flag set issues neither bucketExists nor makeBucket
C5_InitializeFirst ==
    \A t \in Tasks :
        /\ tasks[t].pc \in ObjectCalls => initialized /\ bucketMade
        /\ tasks[t].late =>
               tasks[t].bucketCalls = 0 /\ tasks[t].pc \notin {"bucketExists", "makeBucket"}

\* an operation that began with the flag set awaits an object-level call
C5_Witness ==
    /\ tasks[Caller].late /\ tasks[Caller].pc \in ObjectCalls
    /\ tasks[Caller].bucketCalls = 0

\* C6: an operation never rejects because makeBucket answered that the
\* bucket already exists
C6_RaceTolerated ==
    \A t \in Tasks :
        (tasks[t].raw # <<>> /\ tasks[t].raw[1] \in BucketTaken) => tasks[t].status # "err"

FsCodes ==
    {"ENOENT", "EACCES", "EEXIST", "EINVAL", "ENAMETOOLONG", "ENOTEMPTY", "EIO",
     "ENOTFOUND", "ECONNREFUSED", "ETIMEDOUT"}

fsShaped(error) ==
    /\ error.code \in FsCodes
    /\ error.errno # 0
    /\ error.syscall # ""

Identified ==
    [c \in {"NoSuchKey", "NoSuchBucket", "BucketNotFound", "AccessDenied",
            "InvalidBucketName", "BucketAlreadyExists", "KeyTooLong",
            "ENOTFOUND", "ECONNREFUSED", "ETIMEDOUT"} |->
        CASE c = "NoSuchKey" -> <<"ENOENT", -2>>
          [] c = "NoSuchBucket" -> <<"ENOENT", -2>>
          [] c = "BucketNotFound" -> <<"ENOENT", -2>>
          [] c = "AccessDenied" -> <<"EACCES", -13>>
          [] c = "InvalidBucketName" -> <<"EINVAL", -22>>
          [] c = "BucketAlreadyExists" -> <<"EEXIST", -17>>
          [] c = "KeyTooLong" -> <<"ENAMETOOLONG", -36>>
          [] c = "ENOTFOUND" -> <<"ENOTFOUND", -3008>>
          [] c = "ECONNREFUSED" -> <<"ECONNREFUSED", -61>>
          [] c = "ETIMEDOUT" -> <<"ETIMEDOUT", -60>>]

\* the substring patterns in the order they are tried
Patterns ==
    << <<"key does not exist", "ENOENT", -2>>,
       <<"NoSuchKey", "ENOENT", -2>>,
       <<"Not Found", "ENOENT", -2>>,
       <<"bucket does not exist", "ENOENT", -2>>,
       <<"NoSuchBucket", "ENOENT", -2>>,
       <<"access denied", "EACCES", -13>>,
       <<"AccessDenied", "EACCES", -13>>,
       <<"ENOTFOUND", "ENOTFOUND", -3008>>,
       <<"ECONNREFUSED", "ECONNREFUSED", -61>>,
       <<"timeout", "ETIMEDOUT", -60>>,
       <<"ETIMEDOUT", "ETIMEDOUT", -60>> >>

matching(message) ==
    {i \in 1..Len(Patterns) : \E j \in 1..Len(message) : message[j] = Patterns[i][1]}

firstMatch(message) ==
    LET i == CHOOSE k \in matching(message) : \A l \in matching(message) : k <= l
    IN  <<Patterns[i][2], Patterns[i][3]>>

classified(out, in, path) ==
    /\ in.code \in DOMAIN Identified => <<out.code, out.errno>> = Identified[in.code]
    /\ (in.code \notin DOMAIN Identified /\ matching(in.message) # {}) =>
           <<out.code, out.errno>> = firstMatch(in.message)
    /\ out.path = path

carriesBoth(error) == error.code # "" /\ error.errno # 0

\* C8 as stated: an identifier of the table gives the table entry whatever
\* the message, otherwise the first matching message pattern decides, and the
\* result's path is the path passed in
C8_AsStated ==
    eh.stage = "converted" => classified(eh.out[1], eh.in, eh.path)

\* C8, amended: for an error that does not already carry both a code and an
\* errno, an identifier of the table gives the table entry whatever the
\* message, otherwise the first matching message pattern decides, and the
\* result's path is the path passed in
C8_Classify ==
    (eh.stage = "converted" /\ ~carriesBoth(eh.in)) =>
        classified(eh.out[1], eh.in, eh.path)

\* an AccessDenied error whose message also says "Not Found" was converted to
\* EACCES/-13 with the given path
C8_Witness ==
    /\ eh.stage = "converted"
    /\ eh.in.code = "AccessDenied" /\ eh.in.errno = 0
    /\ eh.in.message = <<"access denied", " (", "Not Found", ")">>
    /\ eh.path = PathAC
    /\ eh.out[1].code = "EACCES" /\ eh.out[1].errno = -13 /\ eh.out[1].path = PathAC

unrecognized(error) ==
    error.code \notin DOMAIN Identified /\ matching(error.message) = {}

fallback(out, in) ==
    /\ out.code = "EIO" /\ out.errno = -5
    /\ out.originalError = <<in>>
    /\ out.originalError[1].message = in.message

C10_Idempotent ==
    /\ eh.stage = "reconverted" => eh.out2 = eh.out
    /\ (eh.stage # "input" /\ carriesBoth(eh.in)) => eh.out = <<eh.in>>

\* an error converted to ENOENT for one path was converted again for another
\* path and syscall and kept its path, syscall and cause
C10_Witness ==
    /\ eh.stage = "reconverted"
    /\ eh.in.code = "NoSuchKey" /\ eh.in.errno = 0
    /\ eh.path = PathAC /\ eh.path2 = <<>> /\ eh.op = "stat" /\ eh.op2 = "open"
    /\ eh.out2[1].code = "ENOENT" /\ eh.out2[1].path = PathAC
    /\ eh.out2[1].syscall = "stat" /\ eh.out2[1].originalError = <<eh.in>>

(***************************************************************************)
(* Properties of the remaining operations                                  *)
(***************************************************************************)
\* the background work of createWriteStream failed: a backend call failed,
\* or initialize() returned and validatePath threw
uploadFailed(tk) ==
    \/ tk.raw # <<>>
    \/ ~validatePathOk(tk.path) /\ tk.pc \notin {"bucketExists", "makeBucket"}

C12_ExistsDirectory ==
    LET tk == tasks[Caller]
    IN  (/\ ended("exists") /\ tk.probe # ""
         /\ fresh # <<>> /\ fresh[1].done /\ fresh[1].path = tk.path
         /\ ~endsWith(tk.path, separator)
         /\ faultsLeft = MaxFaults) =>
            tk.status = "ok" /\ tk.value.bool

C13_Removed ==
    LET tk == tasks[Caller]
    IN  /\ ended("unlink") /\ tk.status = "ok"
        /\ pathToMinIO(tk.path).key \in DOMAIN tk.before
        /\ pathToMinIO(tk.path).key \notin DOMAIN store

\* C14: copyFile(src, dest) on valid paths, with src's object in the store and
\* no backend call failing, completes successfully; afterwards dest's object
\* holds the bytes of src's object, and src and every other object are as
\* before
C14_CopyFile ==
    LET tk == tasks[Caller]
        srcKey == pathToMinIO(tk.path).key
        destKey == pathToMinIO(tk.dest).key
    IN  (/\ ended("copyFile")
         /\ validatePathOk(tk.path) /\ validatePathOk(tk.dest)
         /\ srcKey \in DOMAIN tk.before /\ destKey # <<>>
         /\ tk.raw = <<>>) =>
            /\ tk.status = "ok"
            /\ store = Put(tk.before, destKey, tk.before[srcKey])

\* C15: for every path p that validatePath accepts,
\* splitPath(joinPath(splitPath(p).bucket, splitPath(p).key)) equals
\* splitPath(normalizePath(p))
C15_RoundTrip ==
    (conv.stage = "joinPath" /\ validatePathOk(conv.p)) => conv.back = conv.direct

\* '/a//b' and '/a/b' split into bucket 'a' and key 'b'
C15_Witness ==
    /\ conv.stage = "joinPath" /\ conv.p = <<"/", "a", "/", "/", "b">>
    /\ validatePathOk(conv.p)
    /\ conv.joined = <<"/", "a", "/", "b">>
    /\ conv.back = [bucket |-> <<"a">>, key |-> <<"b">>]
    /\ conv.direct = conv.back

\* C16: normalizePath(normalizePath(p)) = normalizePath(p) for every string p,
\* and normalizePath(p) begins with exactly one '/' and ends with '/' only
\* when it is the root
C16_Idempotent ==
    conv.stage = "normalizePath" =>
        /\ conv.twice = conv.once
        /\ startsWith(conv.once, <<"/">>)
        /\ ~startsWith(conv.once, <<"/", "/">>)
        /\ endsWith(conv.once, <<"/">>) => conv.once = <<"/">>

\* C17: for every p that does not begin with '/',
\* splitPath(p) = splitPath('/' + p)
C17_LeadingSlash ==
    (conv.stage = "splitPath" /\ ~startsWith(conv.p, <<"/">>)) =>
        conv.split = conv.slashed

\* the key of a path when no prefix is configured
pathKey(filePath) ==
    collapseSlashes(stripBucket(stripLeadingSlashes(posixNormalize(filePath))))

\* two separators in a row
RECURSIVE doubled(_)
doubled(s) ==
    IF Len(s) < 2 THEN FALSE
    ELSE (s[1] = "/" /\ s[2] = "/") \/ doubled(Tail(s))

\* C18: for every configured prefix and every path, the key of pathToMinIO
\* does not begin with '/', holds no two separators in a row, and with a
\* prefix configured is the prefix, one separator and the path's key
C18_Key ==
    conv.stage = "pathToMinIO" =>
        /\ ~startsWith(conv.key, <<"/">>)
        /\ ~doubled(conv.key)
        /\ prefix # <<>> => conv.key = prefix \o separator \o pathKey(conv.p)

\* the normalized path begins with a segment that is the bucket name
bucketFirst(filePath) ==
    LET n == stripLeadingSlashes(posixNormalize(filePath))
    IN  n = Bucket \/ startsWith(n, Bucket \o separator)

\* the normalized path begins with the bucket name, in a longer segment
bucketLike(filePath) ==
    LET n == stripLeadingSlashes(posixNormalize(filePath))
    IN  startsWith(n, Bucket) /\ ~bucketFirst(filePath)

\* a leading segment that only begins with the bucket name stays in the key
keepsLookalike ==
    bucketLike(conv.p) =>
        conv.key = collapseSlashes(addPrefix(stripLeadingSlashes(posixNormalize(conv.p))))

invalidPath(tk) ==
    /\ tk.op # ""
    /\ \/ ~validatePathOk(tk.path)
       \/ tk.op = "copyFile" /\ ~validatePathOk(tk.dest)

BackendCalls == ObjectCalls \cup {"bucketExists", "makeBucket"}

\* C20 as stated: an operation called with a path that validatePath rejects
\* issues no backend call, rejects, and leaves the store unchanged
C20_AsStated ==
    \A t \in Tasks :
        invalidPath(tasks[t]) =>
            /\ tasks[t].pc \notin BackendCalls
            /\ tasks[t].bucketCalls = 0
            /\ tasks[t].pc = "done" =>
                   tasks[t].status = "err" /\ store = tasks[t].before

\* C20, amended: an operation called on an initialized client with a path
\* that validatePath rejects ends before its first await, without any backend
\* call and with the store unchanged: it rejects, or, for createWriteStream,
\* destroys the stream it returns; on a client not yet initialized only the
\* calls of initialize() are issued
C20_Local ==
    \A t \in Tasks :
        invalidPath(tasks[t]) =>
            /\ tasks[t].pc \notin ObjectCalls
            /\ tasks[t].late =>
                   /\ tasks[t].pc = "done"
                   /\ tasks[t].bucketCalls = 0
                   /\ store = tasks[t].before
                   /\ tasks[t].raw = <<>>
                   /\ IF tasks[t].op = "createWriteStream"
                      THEN tasks[t].destroyed # <<>>
                      ELSE tasks[t].status = "err"

\* writeFile('a:', ...) was rejected on an initialized client that holds an
\* object
C20_Witness ==
    LET tk == tasks[Caller]
    IN  /\ tk.op = "writeFile" /\ tk.path = PathBad /\ tk.late
        /\ tk.pc = "done" /\ tk.status = "err" /\ tk.bucketCalls = 0
        /\ tk.error[1].originalError[1].message = <<"Path contains invalid characters">>
        /\ store # Empty /\ store = tk.before

\* the bytes of a sequence of chunks, in the order of the sequence
RECURSIVE inOrder(_)
inOrder(chunks) ==
    IF chunks = <<>> THEN <<>>
    ELSE inOrder(SubSeq(chunks, 1, Len(chunks) - 1)) \o chunks[Len(chunks)]

\* the promise of sc was settled once, by the first of 'end' and 'error':
\* with the bytes emitted or written, in order, or with the error
settledByFirst ==
    /\ sc.settled = IF sc.first = "" THEN 0 ELSE 1
    /\ sc.first = "" => sc.promise = "pending"
    /\ sc.first = "end" =>
           /\ sc.promise = "resolved" /\ sc.value = inOrder(sc.emitted)
           /\ sc.emitted = <<>> => sc.value = <<>>
    /\ sc.first = "error" =>
           /\ sc.promise = "rejected"
           /\ sc.failure # <<>> /\ sc.reason = sc.failure

\* C21: the promise of streamToBuffer settles once: when the stream ends it
\* resolves with the chunks emitted, joined in order (no byte for no chunk);
\* when the stream emits an error before it ends, it rejects with that error
\* and stays rejected
C21_StreamToBuffer == sc.fn = "streamToBuffer" => settledByFirst

\* two chunks, the end, then an error: the promise holds the two chunks
C21_Witness ==
    /\ sc.fn = "streamToBuffer" /\ sc.stream = "ended" /\ sc.first = "end"
    /\ sc.emitted = <<<<72>>, <<105>>>> /\ sc.failure # <<>>
    /\ sc.promise = "resolved" /\ sc.value = <<72, 105>> /\ sc.settled = 1

\* C24: createPassThroughStream returns a sink and a promise; the promise
\* resolves, when the sink is ended, with all that was written, joined in the
\* order of the writes (no byte when nothing was written), and rejects with
\* the sink's error when the sink errors first
C24_PassThrough ==
    sc.fn = "createPassThrough" =>
        /\ sc.promise # "none"
        /\ settledByFirst

markerKey(p) == createDirectoryMarker(p).key

\* every directory of the chain has its marker among the objects
allMarked(objects, chain) ==
    \A i \in 1..Len(chain) : markerKey(chain[i]) \in DOMAIN objects

\* the objects, and a zero-byte marker for every directory of the chain
withMarkers(objects, chain) ==
    [k \in DOMAIN objects \cup {markerKey(chain[i]) : i \in 1..Len(chain)} |->
        IF k \in DOMAIN objects THEN objects[k] ELSE <<>>]

\* mkdir(p) ended on a valid path whose marker existed, with no backend failure
mkdirOnExisting ==
    LET tk == tasks[Caller]
    IN  /\ ended("mkdir") /\ validatePathOk(tk.path)
        /\ markerKey(tk.path) \in DOMAIN tk.before /\ tk.raw = <<>>

mkdirRefused ==
    LET tk == tasks[Caller]
    IN  /\ tk.status = "err"
        /\ tk.error[1].code = "EEXIST" /\ tk.error[1].errno = -17
        /\ store = tk.before

C23_RmdirFrame ==
    [][\A t \in Tasks :
        (tasks'[t] # tasks[t] /\ tasks'[t].op = "rmdir") =>
            \/ store' = store
            \/ /\ store' = Del(store, markerKey(tasks'[t].path))
               /\ tasks'[t].pc = "done" /\ tasks'[t].status = "ok"]_vars

\* rmdir(p) succeeded and removed p's marker while the other caller's object
\* below p, written after rmdir had listed the directory, stayed
C23_Witness ==
    \E t \in Tasks :
        LET tk == tasks[t]
        IN  /\ tk.op = "rmdir" /\ tk.pc = "done" /\ tk.status = "ok"
            /\ markerKey(tk.path) \in DOMAIN tk.before
            /\ markerKey(tk.path) \notin DOMAIN store
            /\ \E k \in DOMAIN store : startsWith(k, markerKey(tk.path))

\* the part of a key up to its first separator
firstSegment(rest) ==
    LET i == indexOfSlash(rest, 1)
    IN  IF i = 0 THEN rest ELSE SubSeq(rest, 1, i - 1)

\* the first segments, below dir, of the keys that start with dir
segmentsBelow(objects, dir) ==
    {firstSegment(substring(k, Len(dir))) :
        k \in {x \in DOMAIN objects : startsWith(x, dir)}} \ {<<>>}

\* x comes before y, or is y, in the order of the code units
RECURSIVE notAfter(_, _)
notAfter(x, y) ==
    IF x = <<>> THEN TRUE
    ELSE IF y = <<>> THEN FALSE
    ELSE IF Head(x) = Head(y) THEN notAfter(Tail(x), Tail(y))
    ELSE CharCode(Head(x)) < CharCode(Head(y))

\* readdir returned names that are the first segments below dir, each neither
\* empty nor holding a separator, in ascending order
listed(names, dir) ==
    /\ {names[i] : i \in 1..Len(names)} = segmentsBelow(store, dir)
    /\ \A i \in 1..Len(names) : names[i] # <<>> /\ indexOfSlash(names[i], 1) = 0
    /\ \A i \in 1..Len(names) - 1 : notAfter(names[i], names[i + 1])

directoryKey(p) ==
    LET key == pathToMinIO(p).key
    IN  IF key = <<>> \/ endsWith(key, separator) THEN key ELSE key \o separator

wroteMarkers(tk) ==
    LET chain == mkdirChain(tk.path, tk.recursive)
    IN  /\ \A k \in DOMAIN tk.before : k \in DOMAIN store /\ store[k] = tk.before[k]
        /\ \A k \in DOMAIN store \ DOMAIN tk.before :
               /\ store[k] = <<>>
               /\ \E i \in 1..Len(chain) : k = markerKey(chain[i])
        /\ (tk.pc = "done" /\ tk.status = "ok") => markerKey(tk.path) \in DOMAIN store

\* C26 as stated: for every path given to mkdir, the root and the bucket's
\* name included, the key of createDirectoryMarker ends with the separator,
\* and what mkdir writes is a zero-byte object at that key
C26_AsStated ==
    LET tk == tasks[Caller]
    IN  tk.op = "mkdir" =>
            /\ endsWith(markerKey(tk.path), separator)
            /\ wroteMarkers(tk)

\* C26: the key of createDirectoryMarker ends with the separator unless it is
\* empty, as it is for the root and for the bucket's name when no prefix is
\* configured; what mkdir writes is a zero-byte object at that key, which ends
\* with the separator, and for the empty key mkdir writes nothing and rejects
C26_Markers ==
    LET tk == tasks[Caller]
        key == markerKey(tk.path)
    IN  tk.op = "mkdir" =>
            /\ key = <<>> \/ endsWith(key, separator)
            /\ key = <<>> <=> (prefix = <<>> /\ tk.path \in {PathRoot, PathB})
            /\ wroteMarkers(tk)
            /\ \A k \in DOMAIN store \ DOMAIN tk.before : endsWith(k, separator)
            /\ (key = <<>> /\ tk.pc = "done") => tk.status = "err" /\ store = tk.before

\* mkdir('/a/c') succeeded and left a zero-byte object at a/c/, which was not
\* there before
C26_Witness ==
    LET tk == tasks[Caller]
    IN  /\ ended("mkdir") /\ tk.status = "ok" /\ tk.path = PathAC /\ prefix = <<>>
        /\ <<"a", "/", "c", "/">> \notin DOMAIN tk.before
        /\ <<"a", "/", "c", "/">> \in DOMAIN store
        /\ store[<<"a", "/", "c", "/">>] = <<>>

\* call i of the history is a call on an object or on a listing
onObject(tk, i) == tk.calls[i][1] \in ObjectCalls

\* C27: the object-level calls of mkdir(p, {recursive: true}) are statObject
\* and putObject on marker keys of p and its ancestors, issued one at a time
\* with the shorter key first and, for one key, statObject before putObject;
\* when the call rejects, every marker it wrote is for a directory above the
\* one whose call failed, so none is for a deeper directory or for p
C27_OutermostFirst ==
    LET tk == tasks[Caller]
        n == Len(tk.calls)
    IN  (tk.op = "mkdir" /\ tk.recursive) =>
            /\ \A i \in 1..n :
                   onObject(tk, i) =>
                       /\ tk.calls[i][1] \in {"statObject", "putObject"}
                       /\ startsWith(markerKey(tk.path), tk.calls[i][2])
            /\ \A i \in 1..n, j \in 1..n :
                   (i < j /\ onObject(tk, i) /\ onObject(tk, j)) =>
                       /\ Len(tk.calls[i][2]) <= Len(tk.calls[j][2])
                       /\ Len(tk.calls[i][2]) = Len(tk.calls[j][2]) =>
                              /\ j = i + 1
                              /\ tk.calls[i][1] = "statObject"
                              /\ tk.calls[j][1] = "putObject"
            /\ (tk.pc = "done" /\ tk.status = "err") =>
                   \A k \in DOMAIN store \ DOMAIN tk.before :
                       n > 0 /\ Len(k) < Len(tk.calls[n][2])

\* mkdir('/a/c', {recursive: true}) wrote the marker of /a, met a backend
\* failure on the marker of /a/c and rejected, leaving no marker for /a/c
C27_Witness ==
    LET tk == tasks[Caller]
    IN  /\ ended("mkdir") /\ tk.recursive /\ tk.status = "err"
        /\ tk.raw # <<>> /\ tk.raw[1] \in Faults
        /\ Len(tk.stack) < Len(mkdirChain(tk.path, TRUE))
        /\ markerKey(mkdirChain(tk.path, TRUE)[1]) \in DOMAIN store \ DOMAIN tk.before
        /\ markerKey(tk.path) \notin DOMAIN store

\* no backend call appears twice, with the same arguments, in the history of
\* the operation
noRepeat(tk) ==
    \A i \in 1..Len(tk.calls), j \in 1..Len(tk.calls) : i < j => tk.calls[i] # tk.calls[j]

\* C28 as stated: an operation issues no backend call twice with the same
\* arguments, and once a backend call has failed (the not-found answer to
\* mkdir's probe apart) it awaits no further call and has rejected
C28_AsStated ==
    LET tk == tasks[Caller]
    IN  /\ noRepeat(tk)
        /\ tk.raw # <<>> => (tk.pc = "done" /\ tk.status = "err")

\* C28: an operation issues no backend call twice with the same arguments,
\* and once a backend call has failed (the not-found answer to mkdir's probe
\* apart) it awaits no further call and has rejected, except that exists()
\* returns false when the failure converts to a not-found error, and that
\* createWriteStream, which has returned its stream, destroys the stream
\* with the converted error
C28_NoRetry ==
    LET tk == tasks[Caller]
    IN  /\ noRepeat(tk)
        /\ tk.raw # <<>> =>
               /\ tk.pc = "done"
               /\ CASE tk.op = "createWriteStream" -> tk.destroyed # <<>>
                    [] tk.op = "exists" /\ tk.status = "ok" ->
                           /\ ~tk.value.bool
                           /\ isNotFoundError(convertError(tk.raw[1], tk.path, "stat"))
                    [] OTHER -> tk.status = "err"

\* rmdir met a backend failure on removeObject, after its listing, and
\* rejected with two calls in its history besides those on the bucket
C28_Witness ==
    LET tk == tasks[Caller]
    IN  /\ ended("rmdir") /\ tk.status = "err"
        /\ tk.raw # <<>> /\ tk.raw[1] \in Faults
        /\ Len(tk.calls) >= 2
        /\ tk.calls[Len(tk.calls)][1] = "removeObject"
        /\ tk.calls[Len(tk.calls) - 1][1] = "listObjectsV2"

\* the operation met a failure of bucketExists or makeBucket
initializeFailed(tk) ==
    /\ tk.raw # <<>> /\ tk.calls # <<>>
    /\ tk.calls[Len(tk.calls)][1] \in {"bucketExists", "makeBucket"}

\* the operation issued no object-level call, the flag is unset, and an
\* operation that began with the flag unset began with bucketExists
initializeLeftUnset(tk, flag) ==
    /\ initializeFailed(tk) =>
           /\ tk.pc = "done"
           /\ \A i \in 1..Len(tk.calls) : tk.calls[i][1] \notin ObjectCalls
           /\ ~flag
    /\ (tk.op # "" /\ ~tk.late) => (tk.calls # <<>> /\ tk.calls[1][1] = "bucketExists")

\* the flag is set only in the step where bucketExists answers that the
\* bucket exists or makeBucket succeeds, and once set it stays set
flagSetOnSuccess ==
    /\ initialized => initialized'
    /\ (~initialized /\ initialized') =>
           /\ tasks[Caller].pc \in {"bucketExists", "makeBucket"}
           /\ tasks'[Caller].raw = <<>>
           /\ bucketMade'

\* C29 as stated: when bucketExists or makeBucket fails, the operation
\* rejects with the converted error, issues no object-level call and leaves
\* the flag unset, so that the next operation checks the bucket again; the
\* flag is set only after a bucket check or creation succeeded, and is never
\* reset
C29_AsStated ==
    [][LET tk == tasks'[Caller]
       IN  /\ initializeLeftUnset(tk, initialized')
           /\ initializeFailed(tk) =>
                  /\ tk.status = "err"
                  /\ tk.error = <<convertError(tk.raw[1], <<>>, "initialize")>>
           /\ flagSetOnSuccess]_vars

\* C29: as stated, except that exists() returns false when the converted
\* error is a not-found error, and that createWriteStream, which has returned
\* its stream, destroys the stream with the error converted once more
C29_Initialize ==
    [][LET tk == tasks'[Caller]
           error == convertError(tk.raw[1], <<>>, "initialize")
       IN  /\ initializeLeftUnset(tk, initialized')
           /\ initializeFailed(tk) =>
                  CASE tk.op = "createWriteStream" ->
                           tk.destroyed = <<convertError(error, tk.path, "open")>>
                    [] tk.op = "exists" /\ isNotFoundError(error) ->
                           tk.status = "ok" /\ ~tk.value.bool
                    [] OTHER -> tk.status = "err" /\ tk.error = <<error>>
           /\ flagSetOnSuccess]_vars

\* the first operation met a failure of the bucket check; the second began
\* with the flag unset, checked the bucket again, and set the flag
C29_Witness ==
    LET tk == tasks[Caller]
    IN  /\ opsLeft = MaxOps - 2 /\ faultsLeft = MaxFaults - 1
        /\ tk.op # "" /\ ~tk.late /\ tk.raw = <<>>
        /\ tk.calls # <<>> /\ tk.calls[1][1] = "bucketExists"
        /\ initialized

\* both callers have finished a recursive mkdir, the only operations started,
\* and no backend call met a failure of the environment
bothMkdirDone ==
    /\ opsLeft = MaxOps - 2 /\ faultsLeft = MaxFaults
    /\ \A t \in Tasks :
           tasks[t].op = "mkdir" /\ tasks[t].recursive /\ tasks[t].pc = "done"

\* the store when the first of the two calls began
storeBefore ==
    IF DOMAIN tasks[1].before \subseteq DOMAIN tasks[2].before
    THEN tasks[1].before ELSE tasks[2].before

\* C30: when two recursive mkdir calls on paths with a common ancestor have
\* run at the same time against a backend that does not fail, both have
\* succeeded and the store is the store before them plus one zero-byte marker
\* for each directory of the two paths and their non-root ancestors
C30_ConcurrentMkdir ==
    bothMkdirDone =>
        /\ \A t \in Tasks : tasks[t].status = "ok"
        /\ store = withMarkers(storeBefore,
                               mkdirChain(tasks[1].path, TRUE)
                                   \o mkdirChain(tasks[2].path, TRUE))

====
